---- MODULE Spec2Model ----
(***************************************************************************)
(* A model of the mipsy toolchain: lexer -> parser -> code generator ->    *)
(* simulator.  Source text is a sequence of one-character strings; tokens, *)
(* nodes, the memory image and the CPU state are modelled as the code      *)
(* builds them.  Pure stages (lex, parse, generate) are operators applied  *)
(* by actions to inputs drawn in the initial state; the simulator runs one *)
(* fetch-decode-execute step per action.                                   *)
(***************************************************************************)
EXTENDS Integers, Sequences, FiniteSets, TLC

VARIABLES
  stage,        \* which pipeline stage has run: "source", "lexed", "parsed", "validated", "generated", "constructed", "running", "done"; "image" for a memory image under direct stores
  source,       \* the source text, a sequence of characters
  tokens,       \* lex(source).result
  lexErrors,    \* lex(source).errors
  nodes,        \* parse(source, tokens).result
  parseErrors,  \* parse(source, tokens).errors
  parseThrew,   \* TRUE when parse ended by an exception instead of returning
  validateErrors, \* validate(source, tokens, nodes).errors
  validateThrew,  \* TRUE when validate ended by an exception instead of returning
  stored,       \* the store calls made directly on a memory image, in order (history)
  labelToAddress, \* the label table pass 1 of generate built
  code,         \* the memory image (Code.mem): word address -> word
  emitted,      \* per INSTRUCTION node index, the address pass 2 held when it encoded the node
  genError,     \* the Error generate threw (message, name), or NoError
  sim,          \* the MipsSimulator object's fields, with the lines it wrote to the console
  steps,        \* the iterations of the loop of run() that ran to completion
  runResult     \* the value returned by run(), or NoResult

vars == <<stage, source, tokens, lexErrors, nodes, parseErrors, parseThrew,
          validateErrors, validateThrew, stored, labelToAddress, code, emitted, genError, sim, steps,
          runResult>>

-----------------------------------------------------------------------------
(* Characters *)

\* no Error thrown; a thrown Error is the pair of its message and the name
\* the message ends with
NoError == <<>>

undefined == "undefined"
NoValue == "novalue"
NUL == "NUL"

Digits == {"0", "1", "2", "3", "4", "5", "6", "7", "8", "9"}

Alphas ==
  {"a", "b", "c", "d", "e", "f", "g", "h", "i", "j", "k", "l", "m",
   "n", "o", "p", "q", "r", "s", "t", "u", "v", "w", "x", "y", "z",
   "A", "B", "C", "D", "E", "F", "G", "H", "I", "J", "K", "L", "M",
   "N", "O", "P", "Q", "R", "S", "T", "U", "V", "W", "X", "Y", "Z", "_"}

DigitValue(c) ==
  CASE c = "0" -> 0 [] c = "1" -> 1 [] c = "2" -> 2 [] c = "3" -> 3 [] c = "4" -> 4
    [] c = "5" -> 5 [] c = "6" -> 6 [] c = "7" -> 7 [] c = "8" -> 8 [] c = "9" -> 9

\* String.prototype.slice(start, end) on a source text, 0-based, end exclusive
slice(s, from, to) ==
  LET lo == IF from < 0 THEN 0 ELSE from
      hi == IF to > Len(s) THEN Len(s) ELSE to
  IN IF hi <= lo THEN <<>> ELSE SubSeq(s, lo + 1, hi)

-----------------------------------------------------------------------------
(* Static tables (types.ts) *)

registers ==
  {[name |-> <<"0">>, num |-> 0],
   [name |-> <<"1">>, num |-> 1],
   [name |-> <<"2">>, num |-> 2],
   [name |-> <<"3">>, num |-> 3],
   [name |-> <<"4">>, num |-> 4],
   [name |-> <<"5">>, num |-> 5],
   [name |-> <<"6">>, num |-> 6],
   [name |-> <<"7">>, num |-> 7],
   [name |-> <<"8">>, num |-> 8],
   [name |-> <<"9">>, num |-> 9],
   [name |-> <<"1","0">>, num |-> 10],
   [name |-> <<"1","1">>, num |-> 11],
   [name |-> <<"1","2">>, num |-> 12],
   [name |-> <<"1","3">>, num |-> 13],
   [name |-> <<"1","4">>, num |-> 14],
   [name |-> <<"1","5">>, num |-> 15],
   [name |-> <<"1","6">>, num |-> 16],
   [name |-> <<"1","7">>, num |-> 17],
   [name |-> <<"1","8">>, num |-> 18],
   [name |-> <<"1","9">>, num |-> 19],
   [name |-> <<"2","0">>, num |-> 20],
   [name |-> <<"2","1">>, num |-> 21],
   [name |-> <<"2","2">>, num |-> 22],
   [name |-> <<"2","3">>, num |-> 23],
   [name |-> <<"2","4">>, num |-> 24],
   [name |-> <<"2","5">>, num |-> 25],
   [name |-> <<"2","6">>, num |-> 26],
   [name |-> <<"2","7">>, num |-> 27],
   [name |-> <<"2","8">>, num |-> 28],
   [name |-> <<"2","9">>, num |-> 29],
   [name |-> <<"3","0">>, num |-> 30],
   [name |-> <<"3","1">>, num |-> 31],
   [name |-> <<"v","0">>, num |-> 2],
   [name |-> <<"v","1">>, num |-> 3],
   [name |-> <<"a","0">>, num |-> 4],
   [name |-> <<"a","1">>, num |-> 5],
   [name |-> <<"a","2">>, num |-> 6],
   [name |-> <<"a","3">>, num |-> 7],
   [name |-> <<"t","0">>, num |-> 8],
   [name |-> <<"t","1">>, num |-> 9],
   [name |-> <<"t","2">>, num |-> 10],
   [name |-> <<"t","3">>, num |-> 11],
   [name |-> <<"t","4">>, num |-> 12],
   [name |-> <<"t","5">>, num |-> 13],
   [name |-> <<"t","6">>, num |-> 14],
   [name |-> <<"t","7">>, num |-> 15],
   [name |-> <<"t","8">>, num |-> 24],
   [name |-> <<"t","9">>, num |-> 25],
   [name |-> <<"s","0">>, num |-> 16],
   [name |-> <<"s","1">>, num |-> 17],
   [name |-> <<"s","2">>, num |-> 18],
   [name |-> <<"s","3">>, num |-> 19],
   [name |-> <<"s","4">>, num |-> 20],
   [name |-> <<"s","5">>, num |-> 21],
   [name |-> <<"s","6">>, num |-> 22],
   [name |-> <<"s","7">>, num |-> 23],
   [name |-> <<"r","a">>, num |-> 31],
   [name |-> <<"s","p">>, num |-> 29],
   [name |-> <<"b","p">>, num |-> 30],
   [name |-> <<"z","e","r","o">>, num |-> 0],
   [name |-> <<"a","t">>, num |-> 1],
   [name |-> <<"g","p">>, num |-> 28],
   [name |-> <<"f","p">>, num |-> 30],
   [name |-> <<"k","0">>, num |-> 26],
   [name |-> <<"k","1">>, num |-> 27]}

ops ==
  {[name |-> <<"a","d","d">>, pseudo |-> FALSE, type |-> "R", opcode |-> 0, funct |-> 32],
   [name |-> <<"a","d","d","u">>, pseudo |-> FALSE, type |-> "R", opcode |-> 0, funct |-> 33],
   [name |-> <<"s","u","b">>, pseudo |-> FALSE, type |-> "R", opcode |-> 0, funct |-> 34],
   [name |-> <<"s","u","b","u">>, pseudo |-> FALSE, type |-> "R", opcode |-> 0, funct |-> 35],
   [name |-> <<"a","n","d">>, pseudo |-> FALSE, type |-> "R", opcode |-> 0, funct |-> 36],
   [name |-> <<"o","r">>, pseudo |-> FALSE, type |-> "R", opcode |-> 0, funct |-> 37],
   [name |-> <<"x","o","r">>, pseudo |-> FALSE, type |-> "R", opcode |-> 0, funct |-> 38],
   [name |-> <<"n","o","r">>, pseudo |-> FALSE, type |-> "R", opcode |-> 0, funct |-> 39],
   [name |-> <<"s","l","t">>, pseudo |-> FALSE, type |-> "R", opcode |-> 0, funct |-> 42],
   [name |-> <<"s","l","t","u">>, pseudo |-> FALSE, type |-> "R", opcode |-> 0, funct |-> 43],
   [name |-> <<"s","l","l">>, pseudo |-> FALSE, type |-> "R", opcode |-> 0, funct |-> 0],
   [name |-> <<"s","r","l">>, pseudo |-> FALSE, type |-> "R", opcode |-> 0, funct |-> 2],
   [name |-> <<"s","r","a">>, pseudo |-> FALSE, type |-> "R", opcode |-> 0, funct |-> 3],
   [name |-> <<"s","l","l","v">>, pseudo |-> FALSE, type |-> "R", opcode |-> 0, funct |-> 4],
   [name |-> <<"s","r","l","v">>, pseudo |-> FALSE, type |-> "R", opcode |-> 0, funct |-> 6],
   [name |-> <<"s","r","a","v">>, pseudo |-> FALSE, type |-> "R", opcode |-> 0, funct |-> 7],
   [name |-> <<"j","r">>, pseudo |-> FALSE, type |-> "R", opcode |-> 0, funct |-> 8],
   [name |-> <<"j","a","l","r">>, pseudo |-> FALSE, type |-> "R", opcode |-> 0, funct |-> 9],
   [name |-> <<"s","y","s","c","a","l","l">>, pseudo |-> FALSE, type |-> "R", opcode |-> 0, funct |-> 12],
   [name |-> <<"b","r","e","a","k">>, pseudo |-> FALSE, type |-> "R", opcode |-> 0, funct |-> 13],
   [name |-> <<"m","f","h","i">>, pseudo |-> FALSE, type |-> "R", opcode |-> 0, funct |-> 16],
   [name |-> <<"m","t","h","i">>, pseudo |-> FALSE, type |-> "R", opcode |-> 0, funct |-> 17],
   [name |-> <<"m","f","l","o">>, pseudo |-> FALSE, type |-> "R", opcode |-> 0, funct |-> 18],
   [name |-> <<"m","t","l","o">>, pseudo |-> FALSE, type |-> "R", opcode |-> 0, funct |-> 19],
   [name |-> <<"m","u","l","t">>, pseudo |-> FALSE, type |-> "R", opcode |-> 0, funct |-> 24],
   [name |-> <<"m","u","l","t","u">>, pseudo |-> FALSE, type |-> "R", opcode |-> 0, funct |-> 25],
   [name |-> <<"d","i","v">>, pseudo |-> FALSE, type |-> "R", opcode |-> 0, funct |-> 26],
   [name |-> <<"d","i","v","u">>, pseudo |-> FALSE, type |-> "R", opcode |-> 0, funct |-> 27],
   [name |-> <<"a","d","d","i">>, pseudo |-> FALSE, type |-> "I", opcode |-> 8, funct |-> 0],
   [name |-> <<"a","d","d","i","u">>, pseudo |-> FALSE, type |-> "I", opcode |-> 9, funct |-> 0],
   [name |-> <<"a","n","d","i">>, pseudo |-> FALSE, type |-> "I", opcode |-> 12, funct |-> 0],
   [name |-> <<"o","r","i">>, pseudo |-> FALSE, type |-> "I", opcode |-> 13, funct |-> 0],
   [name |-> <<"x","o","r","i">>, pseudo |-> FALSE, type |-> "I", opcode |-> 14, funct |-> 0],
   [name |-> <<"l","u","i">>, pseudo |-> FALSE, type |-> "I", opcode |-> 15, funct |-> 0],
   [name |-> <<"l","w">>, pseudo |-> FALSE, type |-> "I", opcode |-> 35, funct |-> 0],
   [name |-> <<"s","w">>, pseudo |-> FALSE, type |-> "I", opcode |-> 43, funct |-> 0],
   [name |-> <<"l","b">>, pseudo |-> FALSE, type |-> "I", opcode |-> 32, funct |-> 0],
   [name |-> <<"l","h">>, pseudo |-> FALSE, type |-> "I", opcode |-> 33, funct |-> 0],
   [name |-> <<"l","b","u">>, pseudo |-> FALSE, type |-> "I", opcode |-> 36, funct |-> 0],
   [name |-> <<"l","h","u">>, pseudo |-> FALSE, type |-> "I", opcode |-> 37, funct |-> 0],
   [name |-> <<"s","b">>, pseudo |-> FALSE, type |-> "I", opcode |-> 40, funct |-> 0],
   [name |-> <<"s","h">>, pseudo |-> FALSE, type |-> "I", opcode |-> 41, funct |-> 0],
   [name |-> <<"s","l","t","i">>, pseudo |-> FALSE, type |-> "I", opcode |-> 10, funct |-> 0],
   [name |-> <<"s","l","t","i","u">>, pseudo |-> FALSE, type |-> "I", opcode |-> 11, funct |-> 0],
   [name |-> <<"b","e","q">>, pseudo |-> FALSE, type |-> "I", opcode |-> 4, funct |-> 0],
   [name |-> <<"b","n","e">>, pseudo |-> FALSE, type |-> "I", opcode |-> 5, funct |-> 0],
   [name |-> <<"b","g","e","z">>, pseudo |-> FALSE, type |-> "I", opcode |-> 1, funct |-> 0],
   [name |-> <<"b","g","t","z">>, pseudo |-> FALSE, type |-> "I", opcode |-> 7, funct |-> 0],
   [name |-> <<"b","l","e","z">>, pseudo |-> FALSE, type |-> "I", opcode |-> 6, funct |-> 0],
   [name |-> <<"b","l","t","z">>, pseudo |-> FALSE, type |-> "I", opcode |-> 1, funct |-> 0],
   [name |-> <<"b","l","t","z","a","l">>, pseudo |-> FALSE, type |-> "I", opcode |-> 1, funct |-> 0],
   [name |-> <<"b","g","e","z","a","l">>, pseudo |-> FALSE, type |-> "I", opcode |-> 1, funct |-> 0],
   [name |-> <<"j">>, pseudo |-> FALSE, type |-> "J", opcode |-> 2, funct |-> 0],
   [name |-> <<"j","a","l">>, pseudo |-> FALSE, type |-> "J", opcode |-> 3, funct |-> 0],
   [name |-> <<"m","o","v","e">>, pseudo |-> TRUE, type |-> "none", opcode |-> 0, funct |-> 0],
   [name |-> <<"l","i">>, pseudo |-> TRUE, type |-> "none", opcode |-> 0, funct |-> 0],
   [name |-> <<"l","a">>, pseudo |-> TRUE, type |-> "none", opcode |-> 0, funct |-> 0],
   [name |-> <<"n","o","p">>, pseudo |-> TRUE, type |-> "none", opcode |-> 0, funct |-> 0],
   [name |-> <<"b","l","t">>, pseudo |-> TRUE, type |-> "none", opcode |-> 0, funct |-> 0],
   [name |-> <<"b","g","t">>, pseudo |-> TRUE, type |-> "none", opcode |-> 0, funct |-> 0],
   [name |-> <<"b","l","e">>, pseudo |-> TRUE, type |-> "none", opcode |-> 0, funct |-> 0],
   [name |-> <<"b","g","e">>, pseudo |-> TRUE, type |-> "none", opcode |-> 0, funct |-> 0],
   [name |-> <<"n","o","t">>, pseudo |-> TRUE, type |-> "none", opcode |-> 0, funct |-> 0],
   [name |-> <<"n","e","g">>, pseudo |-> TRUE, type |-> "none", opcode |-> 0, funct |-> 0],
   [name |-> <<"a","b","s">>, pseudo |-> TRUE, type |-> "none", opcode |-> 0, funct |-> 0],
   [name |-> <<"m","u","l">>, pseudo |-> FALSE, type |-> "R", opcode |-> 28, funct |-> 2]}

directives ==
  {<<".","a","l","i","g","n">>,
   <<".","a","s","c","i","i">>,
   <<".","a","s","c","i","i","z">>,
   <<".","b","y","t","e">>,
   <<".","d","a","t","a">>,
   <<".","d","o","u","b","l","e">>,
   <<".","f","l","o","a","t">>,
   <<".","h","a","l","f">>,
   <<".","s","p","a","c","e">>,
   <<".","w","o","r","d">>,
   <<".","t","e","x","t">>,
   <<".","c","o","d","e">>,
   <<".","g","l","o","b","l">>,
   <<".","e","x","t","e","r","n">>,
   <<".","s","e","t">>,
   <<".","e","q","v">>,
   <<".","m","a","c","r","o">>,
   <<".","e","n","d","_","m","a","c","r","o">>,
   <<".","k","d","a","t","a">>,
   <<".","k","t","e","x","t">>,
   <<".","s","e","c","t","i","o","n">>,
   <<".","f","i","l","e">>,
   <<".","l","i","n","e">>,
   <<".","e","n","t">>,
   <<".","e","n","d">>,
   <<".","o","r","g">>,
   <<".","r","e","p","e","a","t">>,
   <<".","e","n","d","r">>,
   <<".","i","n","c","l","u","d","e">>}

IsRegisterName(name) == \E r \in registers : r.name = name
RegisterNumber(name) == (CHOOSE r \in registers : r.name = name).num
IsOp(name) == \E o \in ops : o.name = name
OpOf(name) == CHOOSE o \in ops : o.name = name
IsDirective(name) == name \in directives

-----------------------------------------------------------------------------
(* Lexer (lex.ts) *)

Position(offset, line) == [offset |-> offset, line |-> line]
Token(type, start, end, value) == [type |-> type, start |-> start, end |-> end, value |-> value]
Diagnostic(start, end, message) == [start |-> start, end |-> end, message |-> message]

lex_peek(src, current) ==
  IF current.offset >= 0 /\ current.offset < Len(src) THEN src[current.offset + 1] ELSE undefined

lex_peekPrev(src, current) ==
  IF current.offset - 1 >= 0 /\ current.offset - 1 < Len(src) THEN src[current.offset] ELSE undefined

\* an end-of-input test that is one character short
lex_isAtEndOffByOne(src, current) == current.offset + 1 >= Len(src)

lex_isAtEnd(src, current) == lex_peek(src, current) = undefined

lex_advance(src, current) ==
  IF lex_isAtEnd(src, current) THEN current
  ELSE Position(current.offset + 1,
                IF lex_peek(src, current) = "\n" THEN current.line + 1 ELSE current.line)

isDigit(c) == c \in Digits
isAlpha(c) == c \in Alphas

\* the escape table of parseString
Unescape(c) ==
  CASE c = "n" -> "\n" [] c = "t" -> "\t" [] c = "r" -> "\r" [] c = "0" -> NUL
    [] OTHER -> c

RECURSIVE parseStringLoop(_, _, _, _)
parseStringLoop(src, current, delimiter, value) ==
  IF lex_isAtEnd(src, current) \/ lex_peek(src, current) = delimiter
  THEN [current |-> current, value |-> value]
  ELSE IF lex_peek(src, current) = "\\"
       THEN LET c1 == lex_advance(src, current)
                escapeChar == lex_peek(src, c1)
            IN IF escapeChar # undefined
               THEN parseStringLoop(src, lex_advance(src, c1), delimiter,
                                    Append(value, Unescape(escapeChar)))
               ELSE parseStringLoop(src, c1, delimiter, value)
       ELSE parseStringLoop(src, lex_advance(src, current), delimiter,
                            Append(value, lex_peek(src, current)))

parseString(src, current, delimiter) ==
  LET body == parseStringLoop(src, lex_advance(src, current), delimiter, <<>>)
  IN IF lex_peek(src, body.current) = delimiter
     THEN [current |-> lex_advance(src, body.current), value |-> body.value]
     ELSE body

\* value = value * 10 + parseInt(peek(), 10).  A JavaScript number with an
\* integer value is held as its decimal digits, most significant first and
\* without leading zeros (zero has none), and its sign: exact for every
\* literal, where a 32-bit integer would overflow on the literals whose value
\* the range checks of the later stages are about
RECURSIVE digitsLoop(_, _, _)
digitsLoop(src, current, value) ==
  IF ~lex_isAtEnd(src, current) /\ isDigit(lex_peek(src, current))
  THEN digitsLoop(src, lex_advance(src, current),
                  IF value = <<>> /\ DigitValue(lex_peek(src, current)) = 0 THEN <<>>
                  ELSE Append(value, DigitValue(lex_peek(src, current))))
  ELSE [current |-> current, value |-> value]

RECURSIVE skipBlanks(_, _)
skipBlanks(src, current) ==
  IF lex_peek(src, current) \in {"\t", " "} THEN skipBlanks(src, lex_advance(src, current))
  ELSE current

prefixedNumber(src, current) ==
  LET signed(sign, d) ==
        [current |-> d.current, value |-> [neg |-> sign = -1 /\ d.value # <<>>, digits |-> d.value]]
      from(sign, c1) == signed(sign, digitsLoop(src, skipBlanks(src, c1), <<>>))
  IN from(IF lex_peek(src, current) = "-" THEN -1 ELSE 1,
          IF lex_peek(src, current) \in {"-", "+"} THEN lex_advance(src, current) ELSE current)

number(src, current) ==
  LET unsigned(d) == [current |-> d.current, value |-> [neg |-> FALSE, digits |-> d.value]]
  IN unsigned(digitsLoop(src, current, <<>>))

RECURSIVE wordLoop(_, _)
wordLoop(src, current) ==
  IF ~lex_isAtEnd(src, current) /\ (isDigit(lex_peek(src, current)) \/ isAlpha(lex_peek(src, current)))
  THEN wordLoop(src, lex_advance(src, current))
  ELSE current

identifier(src, current) == wordLoop(src, lex_advance(src, current))

lex_directive(src, current) == wordLoop(src, lex_advance(src, current))

register(src, current) ==
  LET c1 == lex_advance(src, current)
      c2 == wordLoop(src, c1)
  IN [current |-> c2, name |-> slice(src, c1.offset, c2.offset)]

RECURSIVE commentLoop(_, _)
commentLoop(src, current) ==
  IF ~lex_isAtEnd(src, current) /\ lex_peek(src, current) # "\n"
  THEN commentLoop(src, lex_advance(src, current))
  ELSE current

comment(src, current) == commentLoop(src, lex_advance(src, current))

\* one iteration of the scanning loop: the switch on the current character.
\* Returns the position reached, the token pushed and the diagnostics pushed.
Scanned(current, type, start, value, msgs) ==
  [current |-> current,
   token |-> Token(type, start, current, value),
   errors |-> [i \in 1..Len(msgs) |-> Diagnostic(start, current, msgs[i])]]

lex_scan(src, start) ==
  LET c == lex_peek(src, start)
      one == lex_advance(src, start)
  IN CASE c = " " -> Scanned(one, "SPACE", start, NoValue, <<>>)
       [] c = "\r" ->
            Scanned(IF lex_peek(src, one) = "\n" THEN lex_advance(src, one) ELSE one,
                    "NEWLINE", start, NoValue, <<>>)
       [] c = "\n" -> Scanned(one, "NEWLINE", start, NoValue, <<>>)
       [] c = "\t" -> Scanned(one, "TAB", start, NoValue, <<>>)
       [] c = "#" -> Scanned(comment(src, start), "COMMENT", start, NoValue, <<>>)
       [] c = "$" ->
            LET r == register(src, start)
            IN IF IsRegisterName(r.name)
               THEN Scanned(r.current, "REGISTER", start, NoValue, <<>>)
               ELSE Scanned(r.current, "INVALID", start, NoValue, <<"Invalid register name">>)
       [] c = "(" -> Scanned(one, "LEFT_PAREN", start, NoValue, <<>>)
       [] c = ")" -> Scanned(one, "RIGHT_PAREN", start, NoValue, <<>>)
       [] c = "," -> Scanned(one, "COMMA", start, NoValue, <<>>)
       [] c = "." -> Scanned(lex_directive(src, start), "DIRECTIVE", start, NoValue, <<>>)
       [] c \in {"\"", "'"} ->
            LET s == parseString(src, start, c)
            IN IF lex_peekPrev(src, s.current) = c
               THEN Scanned(s.current, "STRING", start, s.value, <<>>)
               ELSE Scanned(s.current, "INVALID", start, NoValue, <<"Unclosed string">>)
       [] c \in {"-", "+"} ->
            LET n == prefixedNumber(src, start)
            IN Scanned(n.current, "NUMBER", start, n.value, <<>>)
       [] OTHER ->
            IF isDigit(c)
            THEN LET n == number(src, start)
                 IN Scanned(n.current, "NUMBER", start, n.value, <<>>)
            ELSE IF isAlpha(c)
            THEN LET e == identifier(src, start)
                 IN IF lex_peek(src, e) = ":"
                    THEN Scanned(lex_advance(src, e), "LABEL", start, NoValue, <<>>)
                    ELSE Scanned(e, "IDENTIFIER", start, NoValue, <<>>)
            ELSE Scanned(one, "INVALID", start, NoValue, <<"Invalid character">>)

\* A lexer that drops blanks instead of emitting them as tokens
PushTokenDropBlanks(result, token) ==
  IF token.type \in {"SPACE", "TAB"} THEN result ELSE Append(result, token)

\* result.push(token)
PushToken(result, token) == Append(result, token)

RECURSIVE lex_loop(_, _, _, _)
lex_loop(src, current, result, errors) ==
  IF lex_isAtEnd(src, current)
  THEN [result |-> PushToken(result, Token("EOF", current, current, NoValue)),
        errors |-> errors]
  ELSE LET s == lex_scan(src, current)
       IN lex_loop(src, s.current, PushToken(result, s.token), errors \o s.errors)

lex(src) == lex_loop(src, Position(0, 0), <<>>, <<>>)

-----------------------------------------------------------------------------
(* Parser (parse.ts, the parse function that returns Result<Node[], Error[]>) *)

\* a function that returns a node or null returns a sequence of at most one node
Null == <<>>

\* NodeType members; INSTRUCTION_LABEL is not a member of the enum the code
\* generator imports, so NodeType.INSTRUCTION_LABEL evaluates to undefined
INSTRUCTION_LABEL == undefined

ParseError(start, end, text, name) ==
  [start |-> start, end |-> end, text |-> text, name |-> name]

\* the parser's mutable locals: current, nodes, errors; threw records an
\* exception that unwinds out of parse
ParserState(current, ns, errors, threw) ==
  [current |-> current, nodes |-> ns, errors |-> errors, threw |-> threw]

parse_peek(toks, current) == toks[current + 1]

parse_isAtEnd(toks, current) == toks[current + 1].type = "EOF"

parse_advance(toks, current) == IF parse_isAtEnd(toks, current) THEN current ELSE current + 1

parse_match(toks, current, types) ==
  IF parse_isAtEnd(toks, current) THEN [ok |-> "EOF" \in types, current |-> current]
  ELSE IF parse_peek(toks, current).type \notin types THEN [ok |-> FALSE, current |-> current]
  ELSE [ok |-> TRUE, current |-> current + 1]

RECURSIVE peekNextScan(_, _)
peekNextScan(toks, start) ==
  IF start < Len(toks)
  THEN IF start + 1 >= Len(toks) THEN [type |-> undefined]
       ELSE IF toks[start + 2].type \notin {"COMMENT", "TAB", "SPACE"}
            THEN toks[start + 2]
            ELSE peekNextScan(toks, start + 1)
  ELSE toks[Len(toks)]

peekNextWithoutWhitespaces(toks, current) == peekNextScan(toks, current)

RECURSIVE recoverLoop(_, _)
recoverLoop(toks, current) ==
  IF parse_isAtEnd(toks, current) THEN current
  ELSE IF parse_peek(toks, current).type = "NEWLINE" THEN current + 1
  ELSE recoverLoop(toks, parse_advance(toks, current))

recover(toks, st, text, name) ==
  LET finish(start, c) ==
        IF c - 1 < 0
        THEN ParserState(c, st.nodes, st.errors, TRUE)
        ELSE ParserState(c, st.nodes,
                         Append(st.errors,
                                ParseError(toks[start + 1].start, toks[c].end, text, name)),
                         st.threw)
  IN finish(st.current, recoverLoop(toks, st.current))

RECURSIVE skipWhitespaces(_, _)
skipWhitespaces(toks, current) ==
  IF ~parse_isAtEnd(toks, current) /\ parse_peek(toks, current).type \in {"TAB", "SPACE", "COMMENT"}
  THEN skipWhitespaces(toks, current + 1)
  ELSE current

At(st, current) == ParserState(current, st.nodes, st.errors, st.threw)

label(toks, st) ==
  LET matched(start, m) ==
        IF ~m.ok THEN recover(toks, At(st, start), "Expected a label", <<>>)
        ELSE ParserState(m.current,
                         Append(st.nodes,
                                [type |-> "LABEL",
                                 tokens |-> SubSeq(toks, start + 1, m.current),
                                 start |-> toks[start + 1].start,
                                 end |-> toks[m.current].end]),
                         st.errors, st.threw)
      from(start) == matched(start, parse_match(toks, start, {"LABEL"}))
  IN from(skipWhitespaces(toks, st.current))

registerArgument(toks, st) ==
  LET from(c, reg) ==
        [st |-> At(st, parse_advance(toks, c)),
         arg |-> <<[type |-> "INSTRUCTION_REGISTER", register |-> reg,
                    start |-> reg.start, end |-> reg.end]>>]
      at(c) == from(c, parse_peek(toks, c))
  IN at(skipWhitespaces(toks, st.current))

immediateArgument(toks, st) ==
  LET from(c, immediate) ==
        [st |-> At(st, parse_advance(toks, c)),
         arg |-> <<[type |-> "INSTRUCTION_IMMEDIATE", immediate |-> immediate,
                    start |-> immediate.start, end |-> immediate.end]>>]
      at(c) == from(c, parse_peek(toks, c))
  IN at(skipWhitespaces(toks, st.current))

displacementArgument(toks, st) ==
  LET closed(disp, reg, c3, rp) ==
        IF ~rp.ok
        THEN [st |-> recover(toks, At(st, c3),
                             "Expected ')' after register in displacement addressing mode", <<>>),
              arg |-> Null]
        ELSE [st |-> At(st, rp.current),
              arg |-> <<[type |-> "INSTRUCTION_DISPLACEMENT", disp |-> disp, register |-> reg,
                         start |-> disp.start, end |-> toks[rp.current].end]>>]
      afterRegister(disp, reg, c3) ==
        closed(disp, reg, c3, parse_match(toks, c3, {"RIGHT_PAREN"}))
      base(disp, c2, reg) ==
        IF reg.type # "REGISTER"
        THEN [st |-> recover(toks, At(st, c2),
                             "Expected register in displacement addressing mode", <<>>),
              arg |-> Null]
        ELSE afterRegister(disp, reg, skipWhitespaces(toks, parse_advance(toks, c2)))
      afterParen(disp, c2) == base(disp, c2, parse_peek(toks, c2))
      opened(disp, c1, lp) ==
        IF ~lp.ok
        THEN [st |-> recover(toks, At(st, c1), "Expected '(' after displacement value", <<>>),
              arg |-> Null]
        ELSE afterParen(disp, skipWhitespaces(toks, lp.current))
      afterDisp(disp, c1) == opened(disp, c1, parse_match(toks, c1, {"LEFT_PAREN"}))
      at(c0) == afterDisp(parse_peek(toks, c0), skipWhitespaces(toks, parse_advance(toks, c0)))
  IN at(skipWhitespaces(toks, st.current))

instructionArgument(toks, st) ==
  LET classify(c, t) ==
        IF t = "REGISTER" THEN registerArgument(toks, At(st, c))
        ELSE IF t \in {"IDENTIFIER", "NUMBER"}
        THEN IF peekNextWithoutWhitespaces(toks, c).type = "LEFT_PAREN"
             THEN displacementArgument(toks, At(st, c))
             ELSE immediateArgument(toks, At(st, c))
        ELSE [st |-> recover(toks, At(st, c),
                             "Expected an instruction argument (register, displacement or immediate)",
                             <<>>),
              arg |-> Null]
      at(c) == classify(c, parse_peek(toks, c).type)
  IN at(skipWhitespaces(toks, st.current))

\* if (arg) args.push(arg)
PushArg(args, arg) == args \o arg

\* the while loop of instruction(): comma, argument, comma, argument, ...
RECURSIVE instructionArgs(_, _, _)
instructionArgs(toks, st, args) ==
  LET next(a) ==
        instructionArgs(toks, At(a.st, skipWhitespaces(toks, a.st.current)), PushArg(args, a.arg))
  IN IF st.threw \/ parse_peek(toks, st.current).type \in {"NEWLINE", "EOF"}
     THEN [st |-> st, args |-> args]
     ELSE IF parse_peek(toks, st.current).type # "COMMA"
     THEN [st |-> recover(toks, st, "Expected comma between instruction arguments", <<>>),
           args |-> args]
     ELSE next(instructionArgument(toks, At(st, skipWhitespaces(toks, st.current + 1))))

instruction(toks, src, st) ==
  LET push(start, op, s2, args) ==
        IF s2.threw THEN s2
        ELSE ParserState(
               parse_match(toks, skipWhitespaces(toks, s2.current), {"NEWLINE"}).current,
               Append(s2.nodes,
                      [type |-> "INSTRUCTION", op |-> op, args |-> args,
                       start |-> toks[start + 1].start, end |-> toks[s2.current].end]),
               s2.errors, s2.threw)
      done(start, op, rest) == push(start, op, rest.st, rest.args)
      more(first) ==
        instructionArgs(toks, At(first.st, skipWhitespaces(toks, first.st.current)),
                        PushArg(<<>>, first.arg))
      arguments(start, op, c1) ==
        IF parse_peek(toks, c1).type \notin {"NEWLINE", "EOF"}
        THEN done(start, op, more(instructionArgument(toks, At(st, c1))))
        ELSE done(start, op, [st |-> At(st, c1), args |-> <<>>])
      named(start, op, opName) ==
        IF ~IsOp(opName)
        THEN recover(toks, At(st, start), "Unknown instruction", opName)
        ELSE arguments(start, op, skipWhitespaces(toks, parse_advance(toks, start)))
      operator(start, op) == named(start, op, slice(src, op.start.offset, op.end.offset))
      at(start) == operator(start, parse_peek(toks, start))
  IN at(skipWhitespaces(toks, st.current))

\* the while loop of directiveArgument(): the raw token run of one argument
RECURSIVE directiveArgumentTokens(_, _, _)
directiveArgumentTokens(toks, current, args) ==
  IF ~parse_isAtEnd(toks, current) /\ parse_peek(toks, current).type \notin {"COMMA", "NEWLINE"}
  THEN directiveArgumentTokens(toks,
                               skipWhitespaces(toks, parse_advance(toks, current)),
                               Append(args, parse_peek(toks, current)))
  ELSE [current |-> current, args |-> args]

directiveArgument(toks, st) ==
  LET build(current, args) ==
        IF Len(toks) = 0
        THEN [st |-> recover(toks, At(st, current), "Expected a directive argument", <<>>),
              arg |-> Null]
        ELSE IF Len(args) = 0
        THEN \* args[0] is undefined: reading args[0].start throws a TypeError
             [st |-> ParserState(current, st.nodes, st.errors, TRUE), arg |-> Null]
        ELSE [st |-> At(st, current),
              arg |-> <<[type |-> "DIRECTIVE_ARG", tokens |-> args,
                         start |-> args[1].start, end |-> args[Len(args)].end]>>]
      collected(run) == build(run.current, run.args)
  IN collected(directiveArgumentTokens(toks, skipWhitespaces(toks, st.current), <<>>))

RECURSIVE directiveArgs(_, _, _)
directiveArgs(toks, st, args) ==
  LET next(a) ==
        directiveArgs(toks, At(a.st, skipWhitespaces(toks, a.st.current)), PushArg(args, a.arg))
  IN IF st.threw \/ parse_peek(toks, st.current).type \in {"NEWLINE", "EOF"}
     THEN [st |-> st, args |-> args]
     ELSE IF parse_peek(toks, st.current).type # "COMMA"
     THEN [st |-> recover(toks, st, "Expected comma between directive arguments", <<>>),
           args |-> args]
     ELSE next(directiveArgument(toks, At(st, skipWhitespaces(toks, st.current + 1))))

directive(toks, src, st) ==
  LET push(start, op, s2, args) ==
        IF s2.threw THEN s2
        ELSE ParserState(
               parse_match(toks, skipWhitespaces(toks, s2.current), {"NEWLINE"}).current,
               Append(s2.nodes,
                      [type |-> "DIRECTIVE", op |-> op, args |-> args,
                       start |-> toks[start + 1].start, end |-> toks[s2.current].end]),
               s2.errors, s2.threw)
      done(start, op, rest) == push(start, op, rest.st, rest.args)
      more(first) ==
        directiveArgs(toks, At(first.st, skipWhitespaces(toks, first.st.current)),
                      PushArg(<<>>, first.arg))
      arguments(start, op, c1) ==
        IF parse_peek(toks, c1).type \notin {"NEWLINE", "EOF"}
        THEN done(start, op, more(directiveArgument(toks, At(st, c1))))
        ELSE done(start, op, [st |-> At(st, c1), args |-> <<>>])
      named(start, op, opName, m) ==
        IF ~m.ok THEN recover(toks, At(st, start), "Expected a directive", <<>>)
        ELSE IF ~IsDirective(opName)
        THEN recover(toks, At(st, m.current), "Unknown directive", opName)
        ELSE arguments(start, op, skipWhitespaces(toks, m.current))
      operator(start, op) ==
        named(start, op, slice(src, op.start.offset, op.end.offset),
              parse_match(toks, start, {"DIRECTIVE"}))
      at(start) == operator(start, parse_peek(toks, start))
  IN at(skipWhitespaces(toks, st.current))

\* one iteration of the statement loop of parse()
statement(toks, src, st, t) ==
  IF t \in {"NEWLINE", "INVALID", "SPACE", "TAB", "COMMENT"} THEN At(st, st.current + 1)
  ELSE IF t = "LABEL" THEN label(toks, st)
  ELSE IF t = "IDENTIFIER" THEN instruction(toks, src, st)
  ELSE IF t = "DIRECTIVE" THEN directive(toks, src, st)
  ELSE recover(toks, st, "Expected a directive, instruction, or label", <<>>)

RECURSIVE parse_loop(_, _, _)
parse_loop(toks, src, st) ==
  IF st.threw \/ parse_isAtEnd(toks, st.current) THEN st
  ELSE parse_loop(toks, src, statement(toks, src, st, parse_peek(toks, st.current).type))

parse(src, toks) ==
  LET returned(st) == [result |-> st.nodes, errors |-> st.errors, threw |-> st.threw]
  IN returned(parse_loop(toks, src, ParserState(0, <<>>, <<>>, FALSE)))

-----------------------------------------------------------------------------
(* 32-bit integers.  JavaScript's bitwise operators and Int32Array hold    *)
(* signed 32-bit values; every operator below stays inside that range.     *)

MinInt32 == -2147483647 - 1

\* ~x
Not32(x) == -1 - x

\* the low 31 bits of x, and the int32 with a given sign bit and low 31 bits
Low31(x) == IF x < 0 THEN (x + 2147483647) + 1 ELSE x
Int32(neg, low) == IF neg THEN (low - 2147483647) - 1 ELSE low

RECURSIVE AndBits(_, _)
AndBits(a, b) ==
  IF a = 0 \/ b = 0 THEN 0
  ELSE ((a % 2) * (b % 2)) + 2 * AndBits(a \div 2, b \div 2)

\* x & y, x | y, x ^ y
And32(x, y) == Int32(x < 0 /\ y < 0, AndBits(Low31(x), Low31(y)))
Or32(x, y) == Not32(And32(Not32(x), Not32(y)))
Xor32(x, y) == And32(Or32(x, y), Not32(And32(x, y)))

\* x << n: the shift count is taken modulo 32 and the result wraps
Shl32(x, n) ==
  IF n % 32 = 0 THEN x
  ELSE Int32((x \div 2^(31 - (n % 32))) % 2 = 1, (x % 2^(31 - (n % 32))) * 2^(n % 32))

\* x >> n (sign-propagating)
Sar32(x, n) == IF n % 32 = 31 THEN (x \div 2^30) \div 2 ELSE x \div 2^(n % 32)

\* x >>> n, as the int32 that holds the same 32 bits
Srl32(x, n) ==
  IF n % 32 = 0 THEN x
  ELSE IF n % 32 = 31 THEN (IF x < 0 THEN 1 ELSE 0)
  ELSE (Low31(x) \div 2^(n % 32)) + (IF x < 0 THEN 2^(31 - (n % 32)) ELSE 0)

\* a + b and a - b wrapped to int32 (the store into an Int32Array, or | 0)
Add32(a, b) ==
  LET lo(s) == s % 65536
      hi(s, t) == (t + (s \div 65536)) % 65536
      join(h, l) == (IF h >= 32768 THEN h - 65536 ELSE h) * 65536 + l
      sum(s, t) == join(hi(s, t), lo(s))
  IN sum((a % 65536) + (b % 65536), (a \div 65536) + (b \div 65536))
Sub32(a, b) == Add32(Add32(a, Not32(b)), 1)

\* a < b on the unsigned readings (x >>> 0) of two int32 values
LessUnsigned(a, b) ==
  IF (a < 0) = (b < 0) THEN a < b ELSE b < 0

\* JavaScript's % (the remainder takes the sign of the dividend)
JSRem(a, b) == IF a >= 0 THEN a % b ELSE 0 - (((Not32(a) % b) + 1) % b)

\* ToInt32 of a number: its value modulo 2^32, read as a signed 32-bit value;
\* of a token's value: a NUMBER token holds a number, the value of
\* the other tokens that can stand as an immediate is undefined (NaN, 0)
ToInt32(n) ==
  LET RECURSIVE low32(_, _, _)
      low32(digits, hi, lo) ==
        IF digits = <<>> THEN (IF hi >= 32768 THEN hi - 65536 ELSE hi) * 65536 + lo
        ELSE low32(Tail(digits), (hi * 10 + (lo * 10 + Head(digits)) \div 65536) % 65536,
                   (lo * 10 + Head(digits)) % 65536)
  IN IF n.neg THEN Sub32(0, low32(n.digits, 0, 0)) ELSE low32(n.digits, 0, 0)

Int32Of(token) == IF token.type = "NUMBER" THEN ToInt32(token.value) ELSE 0

-----------------------------------------------------------------------------
(* The memory image (class Code in code-gen.ts).  An object that uses the  *)
(* image is a record with a field mem, the Map from word address to word,  *)
(* and a field error, the message of the Error thrown so far (NoError when *)
(* none); once an error is thrown the remaining operations are skipped.    *)

\* this.mem.get(address) || 0
MemGet(mem, address) == IF address \in DOMAIN mem THEN mem[address] ELSE 0

\* this.mem.set(address, word)
MemSet(mem, address, word) == (address :> word) @@ mem

Throw(c, message) == IF c.error # NoError THEN c ELSE [c EXCEPT !.error = message]

alignAddressToWordBoundary(address) == (address \div 4) * 4

\* a store that numbers the byte lanes of a word from its high end
storeByteBigEndian(c, address, byte) ==
  LET put(wordAddress, shift) ==
        MemSet(c.mem, wordAddress,
               Or32(And32(MemGet(c.mem, wordAddress), Not32(Shl32(255, shift))),
                    Shl32(And32(byte, 255), shift)))
  IN IF c.error # NoError THEN c
     ELSE [c EXCEPT !.mem = put(alignAddressToWordBoundary(address), (3 - JSRem(address, 4)) * 8)]

storeByte(c, address, byte) ==
  LET put(wordAddress, shift) ==
        MemSet(c.mem, wordAddress,
               Or32(And32(MemGet(c.mem, wordAddress), Not32(Shl32(255, shift))),
                    Shl32(And32(byte, 255), shift)))
  IN IF c.error # NoError THEN c
     ELSE [c EXCEPT !.mem = put(alignAddressToWordBoundary(address), JSRem(address, 4) * 8)]

storeHalfWord(c, address, halfword) ==
  LET put(wordAddress, shift) ==
        MemSet(c.mem, wordAddress,
               Or32(And32(MemGet(c.mem, wordAddress), Not32(Shl32(65535, shift))),
                    Shl32(And32(halfword, 65535), shift)))
  IN IF c.error # NoError THEN c
     ELSE IF JSRem(address, 2) # 0 THEN Throw(c, <<"Address must be half-word aligned", <<>>>>)
     ELSE [c EXCEPT !.mem = put(alignAddressToWordBoundary(address),
                                (JSRem(address, 4) \div 2) * 16)]

storeWord(c, address, word) ==
  IF c.error # NoError THEN c
  ELSE IF JSRem(address, 4) # 0 THEN Throw(c, <<"Address must be word aligned", <<>>>>)
  ELSE [c EXCEPT !.mem = MemSet(c.mem, address, word)]

\* a read that keeps the sign of the shifted word
readByteSigned(mem, address) ==
  Sar32(MemGet(mem, alignAddressToWordBoundary(address)), JSRem(address, 4) * 8)

readByte(mem, address) ==
  And32(Sar32(MemGet(mem, alignAddressToWordBoundary(address)), JSRem(address, 4) * 8), 255)

\* readHalfWord and readWord throw on a misaligned address: CanReadHalfWord
\* and CanReadWord are their guards
CanReadHalfWord(address) == JSRem(address, 2) = 0
readHalfWord(mem, address) ==
  And32(Sar32(MemGet(mem, alignAddressToWordBoundary(address)),
              (JSRem(address, 4) \div 2) * 16), 65535)

CanReadWord(address) == JSRem(address, 4) = 0
readWord(mem, address) == MemGet(mem, address)

-----------------------------------------------------------------------------
(* Code generator (code-gen.ts) *)

\* section base addresses, imported from ./types
TEXT_START == 4194304
DATA_START == 268500992

\* the value of an address after arithmetic on undefined
NaN == "NaN"

\* the printable ASCII characters, from code 32
Ascii ==
  <<" ", "!", "\"", "#", "$", "%", "&", "'", "(", ")", "*", "+",
    ",", "-", ".", "/", "0", "1", "2", "3", "4", "5", "6", "7",
    "8", "9", ":", ";", "<", "=", ">", "?", "@", "A", "B", "C",
    "D", "E", "F", "G", "H", "I", "J", "K", "L", "M", "N", "O",
    "P", "Q", "R", "S", "T", "U", "V", "W", "X", "Y", "Z", "[",
    "\\", "]", "^", "_", "GRAVE", "a", "b", "c", "d", "e", "f", "g",
    "h", "i", "j", "k", "l", "m", "n", "o", "p", "q", "r", "s",
    "t", "u", "v", "w", "x", "y", "z", "{", "|", "}", "~">>

\* String.prototype.charCodeAt for a character of a STRING token's value
CharCode(c) ==
  IF c = NUL THEN 0
  ELSE IF c = "\t" THEN 9
  ELSE IF c = "\n" THEN 10
  ELSE IF c = "\r" THEN 13
  ELSE 31 + (CHOOSE i \in 1..Len(Ascii) : Ascii[i] = c)

\* a.replace(ch, ''): the first occurrence of ch removed
RECURSIVE RemoveFirst(_, _)
RemoveFirst(s, ch) ==
  IF s = <<>> THEN <<>>
  ELSE IF Head(s) = ch THEN Tail(s)
  ELSE <<Head(s)>> \o RemoveFirst(Tail(s), ch)

\* source.slice(op.start.offset, op.end.offset) of a node's op token
OpName(src, node) == slice(src, node.op.start.offset, node.op.end.offset)

\* an alignment that rounds the address down
AlignDown(address, alignValue) ==
  LET round(alignment) ==
        IF alignment > 0 THEN (address \div alignment) * alignment
        ELSE IF address > 0 THEN 0
        ELSE IF address = 0 THEN 0 ELSE MinInt32
  IN round(Shl32(1, alignValue))

\* Math.ceil(address / alignment) * alignment, alignment = 1 << alignValue.
\* 1 << 31 is negative: the quotient of a positive address is then in
\* (-1, 0) and its ceiling is (minus) zero.
AlignUp(address, alignValue) ==
  LET round(alignment) ==
        IF alignment > 0 THEN (0 - ((0 - address) \div alignment)) * alignment
        ELSE IF address > 0 THEN 0
        ELSE IF address = 0 THEN 0 ELSE MinInt32
  IN round(Shl32(1, alignValue))

\* (arg.tokens[0].value as string).length: the length of a STRING token's
\* value, undefined for the number of a NUMBER token, and a TypeError for
\* the undefined value of any other token
HasValue(arg) == arg.tokens[1].type \in {"STRING", "NUMBER"}
IsString(arg) == arg.tokens[1].type = "STRING"

RECURSIVE SumLengths(_, _)
SumLengths(args, extra) ==
  IF args = <<>> THEN 0
  ELSE Len(Head(args).tokens[1].value) + extra + SumLengths(Tail(args), extra)

TypeError == <<"TypeError: Cannot read properties of undefined (reading 'length')", <<>>>>

\* the .ascii / .asciiz case of pass 1
mapAscii(p, args, extra) ==
  IF \E i \in DOMAIN args : ~HasValue(args[i]) THEN Throw(p, TypeError)
  ELSE IF \E i \in DOMAIN args : ~IsString(args[i]) THEN [p EXCEPT !.dataNaN = TRUE]
  ELSE [p EXCEPT !.data = @ + SumLengths(args, extra)]

\* a pass 1 in which .kdata opens the DATA section as .data does
mapDirectiveKernelData(p, opName, args) ==
  IF opName \in {<<".", "d", "a", "t", "a">>, <<".", "k", "d", "a", "t", "a">>} THEN [p EXCEPT !.section = "DATA"]
  ELSE IF opName \in {<<".", "t", "e", "x", "t">>, <<".", "c", "o", "d", "e">>} THEN [p EXCEPT !.section = "CODE"]
  ELSE IF opName = <<".", "s", "e", "c", "t", "i", "o", "n">> THEN Throw(p, <<"Unsupported directive: .section", <<>>>>)
  ELSE IF opName = <<".", "a", "l", "i", "g", "n">> THEN
    IF Len(args) > 0
    THEN IF p.section = "DATA"
         THEN [p EXCEPT !.data = AlignUp(@, Int32Of(args[1].tokens[1]))]
         ELSE [p EXCEPT !.code = AlignUp(@, Int32Of(args[1].tokens[1]))]
    ELSE p
  ELSE IF opName = <<".", "a", "s", "c", "i", "i">> THEN (IF Len(args) > 0 THEN mapAscii(p, args, 0) ELSE p)
  ELSE IF opName = <<".", "a", "s", "c", "i", "i", "z">> THEN (IF Len(args) > 0 THEN mapAscii(p, args, 1) ELSE p)
  ELSE IF opName = <<".", "b", "y", "t", "e">> THEN [p EXCEPT !.data = @ + Len(args)]
  ELSE IF opName = <<".", "h", "a", "l", "f">> THEN [p EXCEPT !.data = @ + Len(args) * 2]
  ELSE IF opName = <<".", "w", "o", "r", "d">> THEN [p EXCEPT !.data = @ + Len(args) * 4]
  ELSE IF opName = <<".", "f", "l", "o", "a", "t">> THEN [p EXCEPT !.data = @ + Len(args) * 4]
  ELSE IF opName = <<".", "d", "o", "u", "b", "l", "e">> THEN [p EXCEPT !.data = @ + Len(args) * 8]
  ELSE p

\* the switch on the directive name in pass 1
mapDirective(p, opName, args) ==
  IF opName = <<".", "d", "a", "t", "a">> THEN [p EXCEPT !.section = "DATA"]
  ELSE IF opName \in {<<".", "t", "e", "x", "t">>, <<".", "c", "o", "d", "e">>} THEN [p EXCEPT !.section = "CODE"]
  ELSE IF opName = <<".", "s", "e", "c", "t", "i", "o", "n">> THEN Throw(p, <<"Unsupported directive: .section", <<>>>>)
  ELSE IF opName = <<".", "a", "l", "i", "g", "n">> THEN
    IF Len(args) > 0
    THEN IF p.section = "DATA"
         THEN [p EXCEPT !.data = AlignUp(@, Int32Of(args[1].tokens[1]))]
         ELSE [p EXCEPT !.code = AlignUp(@, Int32Of(args[1].tokens[1]))]
    ELSE p
  ELSE IF opName = <<".", "a", "s", "c", "i", "i">> THEN (IF Len(args) > 0 THEN mapAscii(p, args, 0) ELSE p)
  ELSE IF opName = <<".", "a", "s", "c", "i", "i", "z">> THEN (IF Len(args) > 0 THEN mapAscii(p, args, 1) ELSE p)
  ELSE IF opName = <<".", "b", "y", "t", "e">> THEN [p EXCEPT !.data = @ + Len(args)]
  ELSE IF opName = <<".", "h", "a", "l", "f">> THEN [p EXCEPT !.data = @ + Len(args) * 2]
  ELSE IF opName = <<".", "w", "o", "r", "d">> THEN [p EXCEPT !.data = @ + Len(args) * 4]
  ELSE IF opName = <<".", "f", "l", "o", "a", "t">> THEN [p EXCEPT !.data = @ + Len(args) * 4]
  ELSE IF opName = <<".", "d", "o", "u", "b", "l", "e">> THEN [p EXCEPT !.data = @ + Len(args) * 8]
  ELSE p

\* an iteration that records every label at the running code address,
\* whatever the current section
mapNodeInCode(src, p, node) ==
  IF node.type = "LABEL"
  THEN [p EXCEPT !.labels = (slice(src, node.start.offset, node.end.offset - 1) :> p.code) @@ @]
  ELSE IF node.type = "DIRECTIVE" THEN mapDirective(p, OpName(src, node), node.args)
  ELSE IF node.type = "INSTRUCTION" THEN [p EXCEPT !.code = @ + 4]
  ELSE Throw(p, <<"Unreachable in mapLabelToAddress", <<>>>>)

\* one iteration of the loop of mapLabelToAdress
mapNode(src, p, node) ==
  IF node.type = "LABEL"
  THEN [p EXCEPT !.labels =
          (slice(src, node.start.offset, node.end.offset - 1)
             :> (IF p.section = "CODE" THEN p.code
                 ELSE IF p.dataNaN THEN NaN ELSE p.data)) @@ @]
  ELSE IF node.type = "DIRECTIVE" THEN mapDirective(p, OpName(src, node), node.args)
  ELSE IF node.type = "INSTRUCTION" THEN [p EXCEPT !.code = @ + 4]
  ELSE Throw(p, <<"Unreachable in mapLabelToAddress", <<>>>>)

RECURSIVE mapLoop(_, _, _, _)
mapLoop(src, ns, i, p) ==
  IF i > Len(ns) \/ p.error # NoError THEN p
  ELSE mapLoop(src, ns, i + 1, mapNode(src, p, ns[i]))

\* pass 1: the label table, with the running addresses it ended on
mapLabelToAdress(src, toks, ns) ==
  mapLoop(src, ns, 1,
          [data |-> DATA_START, dataNaN |-> FALSE, code |-> TEXT_START,
           section |-> "CODE", labels |-> <<>>, error |-> NoError])

\* floatView[0] = value; intView[0]: the IEEE-754 single-precision bits of
\* an integer, rounded to nearest even (as the int32 holding those bits)
RECURSIVE Log2(_)
Log2(m) == IF m < 2 THEN 0 ELSE 1 + Log2(m \div 2)

Float32Bits(v) ==
  LET pack(neg, e, frac) == Int32(neg, (e + 127) * 2^23 + frac)
      rounded(neg, e, q) ==
        IF q = 2^24 THEN pack(neg, e + 1, 0) ELSE pack(neg, e, q - 2^23)
      narrow(neg, m, e, shift) ==
        rounded(neg, e,
                (m \div 2^shift)
                  + (IF (m % 2^shift) * 2 > 2^shift
                        \/ ((m % 2^shift) * 2 = 2^shift /\ (m \div 2^shift) % 2 = 1)
                     THEN 1 ELSE 0))
      bits(neg, m, e) ==
        IF e <= 23 THEN pack(neg, e, (m - 2^e) * 2^(23 - e))
        ELSE narrow(neg, m, e, e - 23)
      magnitude(neg, m) == bits(neg, m, Log2(m))
  IN IF v = 0 THEN 0
     ELSE IF v = MinInt32 THEN Int32(TRUE, (31 + 127) * 2^23)
     ELSE magnitude(v < 0, IF v < 0 THEN 0 - v ELSE v)

\* doubleView[0] = value; intView[1] and intView[0]: the high and the low
\* word of the IEEE-754 double-precision bits of an integer
DoubleHigh(v) ==
  LET pack(neg, m, e) ==
        Int32(neg, (e + 1023) * 2^20
                   + (IF e >= 20 THEN (m - 2^e) \div 2^(e - 20) ELSE (m - 2^e) * 2^(20 - e)))
      magnitude(neg, m) == pack(neg, m, Log2(m))
  IN IF v = 0 THEN 0
     ELSE IF v = MinInt32 THEN Int32(TRUE, (31 + 1023) * 2^20)
     ELSE magnitude(v < 0, IF v < 0 THEN 0 - v ELSE v)

DoubleLow(v) ==
  LET low(m, e) == IF e <= 20 THEN 0 ELSE Shl32((m - 2^e) % 2^(e - 20), 52 - e)
      magnitude(m) == low(m, Log2(m))
  IN IF v = 0 \/ v = MinInt32 THEN 0
     ELSE magnitude(IF v < 0 THEN 0 - v ELSE v)

\* the bits of NaN, stored for a value that is undefined
Float32NaN == 2143289344
DoubleHighNaN == 2146959360

Advance(g, n) == IF g.error # NoError THEN g ELSE [g EXCEPT !.data = @ + n]

\* for (let i = 0; i < str.length; i++) { storeByte; dataSectionAddress++ }
RECURSIVE storeString(_, _, _)
storeString(g, str, i) ==
  IF i > Len(str) THEN g
  ELSE storeString(Advance(storeByte(g, g.data, CharCode(str[i])), 1), str, i + 1)

\* the .ascii / .asciiz case of pass 2
RECURSIVE emitAscii(_, _, _, _)
emitAscii(g, args, i, terminated) ==
  LET closed(h) == IF terminated THEN Advance(storeByte(h, h.data, 0), 1) ELSE h
  IN IF i > Len(args) \/ g.error # NoError THEN g
     ELSE IF ~HasValue(args[i]) THEN Throw(g, TypeError)
     ELSE IF ~IsString(args[i]) THEN emitAscii(closed(g), args, i + 1, terminated)
     ELSE emitAscii(closed(storeString(g, args[i].tokens[1].value, 1)), args, i + 1, terminated)

\* one argument of .byte, .half, .word, .float, .double in pass 2
emitDatum(g, opName, token) ==
  IF opName = <<".", "b", "y", "t", "e">> THEN Advance(storeByte(g, g.data, Int32Of(token)), 1)
  ELSE IF opName = <<".", "h", "a", "l", "f">> THEN Advance(storeHalfWord(g, g.data, Int32Of(token)), 2)
  ELSE IF opName = <<".", "w", "o", "r", "d">> THEN Advance(storeWord(g, g.data, IF token.type = "NUMBER" THEN Int32Of(token) ELSE token.value), 4)
  ELSE IF opName = <<".", "f", "l", "o", "a", "t">>
  THEN Advance(storeWord(g, g.data,
                         IF token.type = "NUMBER" THEN Float32Bits(Int32Of(token))
                         ELSE Float32NaN), 4)
  ELSE Advance(storeWord(storeWord(g, g.data,
                                   IF token.type = "NUMBER" THEN DoubleHigh(Int32Of(token))
                                   ELSE DoubleHighNaN),
                         g.data + 4,
                         IF token.type = "NUMBER" THEN DoubleLow(Int32Of(token)) ELSE 0), 8)

RECURSIVE emitData(_, _, _, _)
emitData(g, opName, args, i) ==
  IF i > Len(args) \/ g.error # NoError THEN g
  ELSE emitData(emitDatum(g, opName, args[i].tokens[1]), opName, args, i + 1)

\* a pass 2 in which .code does not open the CODE section
emitDirectiveTextOnly(g, opName, args) ==
  IF opName = <<".", "d", "a", "t", "a">> THEN [g EXCEPT !.section = "DATA"]
  ELSE IF opName = <<".", "t", "e", "x", "t">> THEN [g EXCEPT !.section = "CODE"]
  ELSE IF opName = <<".", "s", "e", "c", "t", "i", "o", "n">> THEN Throw(g, <<"Unsupported directive: .section", <<>>>>)
  ELSE IF opName = <<".", "a", "l", "i", "g", "n">> THEN
    IF Len(args) > 0
    THEN IF g.section = "DATA"
         THEN [g EXCEPT !.data = AlignUp(@, Int32Of(args[1].tokens[1]))]
         ELSE [g EXCEPT !.code = AlignUp(@, Int32Of(args[1].tokens[1]))]
    ELSE g
  ELSE IF opName = <<".", "a", "s", "c", "i", "i">> THEN (IF Len(args) > 0 THEN emitAscii(g, args, 1, FALSE) ELSE g)
  ELSE IF opName = <<".", "a", "s", "c", "i", "i", "z">> THEN (IF Len(args) > 0 THEN emitAscii(g, args, 1, TRUE) ELSE g)
  ELSE IF opName \in {<<".", "b", "y", "t", "e">>, <<".", "h", "a", "l", "f">>, <<".", "w", "o", "r", "d">>, <<".", "f", "l", "o", "a", "t">>, <<".", "d", "o", "u", "b", "l", "e">>}
  THEN emitData(g, opName, args, 1)
  ELSE g

\* the switch on the directive name in pass 2
emitDirective(g, opName, args) ==
  IF opName = <<".", "d", "a", "t", "a">> THEN [g EXCEPT !.section = "DATA"]
  ELSE IF opName \in {<<".", "t", "e", "x", "t">>, <<".", "c", "o", "d", "e">>} THEN [g EXCEPT !.section = "CODE"]
  ELSE IF opName = <<".", "s", "e", "c", "t", "i", "o", "n">> THEN Throw(g, <<"Unsupported directive: .section", <<>>>>)
  ELSE IF opName = <<".", "a", "l", "i", "g", "n">> THEN
    IF Len(args) > 0
    THEN IF g.section = "DATA"
         THEN [g EXCEPT !.data = AlignUp(@, Int32Of(args[1].tokens[1]))]
         ELSE [g EXCEPT !.code = AlignUp(@, Int32Of(args[1].tokens[1]))]
    ELSE g
  ELSE IF opName = <<".", "a", "s", "c", "i", "i">> THEN (IF Len(args) > 0 THEN emitAscii(g, args, 1, FALSE) ELSE g)
  ELSE IF opName = <<".", "a", "s", "c", "i", "i", "z">> THEN (IF Len(args) > 0 THEN emitAscii(g, args, 1, TRUE) ELSE g)
  ELSE IF opName \in {<<".", "b", "y", "t", "e">>, <<".", "h", "a", "l", "f">>, <<".", "w", "o", "r", "d">>, <<".", "f", "l", "o", "a", "t">>, <<".", "d", "o", "u", "b", "l", "e">>}
  THEN emitData(g, opName, args, 1)
  ELSE g

\* getRegisterNumber: the register's name without its '$', looked up in the
\* register table; an unknown name throws
RegisterName(src, token) ==
  RemoveFirst(slice(src, token.start.offset, token.end.offset), "$")

getRegisterNumber(src, token) == RegisterNumber(RegisterName(src, token))

\* an encoder's outcome: the word, or the error thrown while reading the
\* registers regs in order
Encoded(src, regs, word) ==
  IF \E i \in DOMAIN regs : ~IsRegisterName(RegisterName(src, regs[i]))
  THEN [word |-> 0,
        error |-> <<"Unknown register: $",
                    RegisterName(src, regs[CHOOSE i \in DOMAIN regs :
                                             /\ ~IsRegisterName(RegisterName(src, regs[i]))
                                             /\ \A j \in 1..(i - 1) :
                                                  IsRegisterName(RegisterName(src, regs[j]))])>>]
  ELSE [word |-> word, error |-> NoError]

ArgTypes(args) == [i \in 1..Len(args) |-> args[i].type]

Unknown(labelName) == [word |-> 0, error |-> <<"Unknown label: ", labelName>>]

\* an R-type encoder that swaps the rs and rt fields
encodeRTypeSwapped(src, inst, name, args) ==
  IF ArgTypes(args) = <<"INSTRUCTION_REGISTER", "INSTRUCTION_REGISTER", "INSTRUCTION_REGISTER">>
  THEN Encoded(src, <<args[1].register, args[2].register, args[3].register>>,
               Or32(Shl32(inst.opcode, 26),
                    Or32(Or32(Or32(Shl32(getRegisterNumber(src, args[3].register), 21),
                                   Shl32(getRegisterNumber(src, args[2].register), 16)),
                              Shl32(getRegisterNumber(src, args[1].register), 11)),
                         inst.funct)))
  ELSE [word |-> Shl32(inst.opcode, 26), error |-> NoError]

\* the R-type branch of generate
encodeRType(src, inst, name, args) ==
  IF name = <<"j", "r">>
  THEN IF ArgTypes(args) = <<"INSTRUCTION_REGISTER">>
       THEN Encoded(src, <<args[1].register>>,
                    Or32(Shl32(inst.opcode, 26),
                         Shl32(getRegisterNumber(src, args[1].register), 21)))
       ELSE [word |-> Shl32(inst.opcode, 26), error |-> NoError]
  ELSE IF name \in {<<"s", "y", "s", "c", "a", "l", "l">>, <<"b", "r", "e", "a", "k">>}
  THEN [word |-> Shl32(inst.opcode, 26), error |-> NoError]
  ELSE IF name \in {<<"s", "l", "l">>, <<"s", "r", "l">>, <<"s", "r", "a">>}
  THEN IF ArgTypes(args) = <<"INSTRUCTION_REGISTER", "INSTRUCTION_REGISTER", "INSTRUCTION_IMMEDIATE">>
       THEN Encoded(src, <<args[1].register, args[2].register>>,
                    Or32(Shl32(inst.opcode, 26),
                         Or32(Or32(Or32(Shl32(getRegisterNumber(src, args[2].register), 16),
                                        Shl32(getRegisterNumber(src, args[1].register), 11)),
                                   Shl32(And32(Int32Of(args[3].immediate), 31), 6)),
                              inst.funct)))
       ELSE [word |-> Shl32(inst.opcode, 26), error |-> NoError]
  ELSE IF ArgTypes(args) = <<"INSTRUCTION_REGISTER", "INSTRUCTION_REGISTER", "INSTRUCTION_REGISTER">>
  THEN Encoded(src, <<args[1].register, args[2].register, args[3].register>>,
               Or32(Shl32(inst.opcode, 26),
                    Or32(Or32(Or32(Shl32(getRegisterNumber(src, args[2].register), 21),
                                   Shl32(getRegisterNumber(src, args[3].register), 16)),
                              Shl32(getRegisterNumber(src, args[1].register), 11)),
                         inst.funct)))
  ELSE [word |-> Shl32(inst.opcode, 26), error |-> NoError]

\* Math.trunc of a quotient by 4, as ToInt32 reads (labelAddress - (a + 4)) / 4
TruncDiv4(x) == IF x >= 0 THEN x \div 4 ELSE 0 - ((0 - x) \div 4)

\* the I-type branch of generate
encodeIType(src, inst, name, args, labels, codeSectionAddress) ==
  LET branch(labelName) ==
        IF Encoded(src, <<args[1].register, args[2].register>>, 0).error # NoError
        THEN Encoded(src, <<args[1].register, args[2].register>>, 0)
        ELSE IF labelName \notin DOMAIN labels THEN Unknown(labelName)
        ELSE Encoded(src, <<args[1].register, args[2].register>>,
                     Or32(Shl32(inst.opcode, 26),
                          Or32(Or32(Shl32(getRegisterNumber(src, args[1].register), 21),
                                    Shl32(getRegisterNumber(src, args[2].register), 16)),
                               And32(TruncDiv4(labels[labelName]
                                                 - (codeSectionAddress + 4)), 65535))))
  IN IF name = <<"l", "u", "i">>
     THEN IF ArgTypes(args) = <<"INSTRUCTION_REGISTER", "INSTRUCTION_IMMEDIATE">>
          THEN Encoded(src, <<args[1].register>>,
                       Or32(Shl32(inst.opcode, 26),
                            Or32(Shl32(getRegisterNumber(src, args[1].register), 16),
                                 And32(Int32Of(args[2].immediate), 65535))))
          ELSE [word |-> Shl32(inst.opcode, 26), error |-> NoError]
     ELSE IF name \in {<<"b", "e", "q">>, <<"b", "n", "e">>}
     THEN IF ArgTypes(args) = <<"INSTRUCTION_REGISTER", "INSTRUCTION_REGISTER", INSTRUCTION_LABEL>>
          THEN branch(slice(src, args[3].label.start.offset, args[3].label.end.offset))
          ELSE [word |-> Shl32(inst.opcode, 26), error |-> NoError]
     ELSE IF name \in {<<"l", "w">>, <<"s", "w">>, <<"l", "b">>, <<"l", "h">>, <<"l", "b", "u">>, <<"l", "h", "u">>, <<"s", "b">>, <<"s", "h">>}
     THEN IF ArgTypes(args) = <<"INSTRUCTION_REGISTER", "INSTRUCTION_DISPLACEMENT">>
          THEN Encoded(src, <<args[1].register, args[2].register>>,
                       Or32(Shl32(inst.opcode, 26),
                            Or32(Or32(Shl32(getRegisterNumber(src, args[2].register), 21),
                                      Shl32(getRegisterNumber(src, args[1].register), 16)),
                                 And32(Int32Of(args[2].disp), 65535))))
          ELSE [word |-> Shl32(inst.opcode, 26), error |-> NoError]
     ELSE IF ArgTypes(args) = <<"INSTRUCTION_REGISTER", "INSTRUCTION_REGISTER", "INSTRUCTION_IMMEDIATE">>
     THEN Encoded(src, <<args[1].register, args[2].register>>,
                  Or32(Shl32(inst.opcode, 26),
                       Or32(Or32(Shl32(getRegisterNumber(src, args[2].register), 21),
                                 Shl32(getRegisterNumber(src, args[1].register), 16)),
                            And32(Int32Of(args[3].immediate), 65535))))
     ELSE [word |-> Shl32(inst.opcode, 26), error |-> NoError]

\* the J-type branch of generate
encodeJType(src, inst, args, labels) ==
  LET jump(labelName) ==
        IF labelName \notin DOMAIN labels THEN Unknown(labelName)
        ELSE [word |-> Or32(Shl32(inst.opcode, 26),
                            And32(Sar32(And32(labels[labelName], 268435455), 2),
                                  67108863)),
              error |-> NoError]
  IN IF ArgTypes(args) = <<INSTRUCTION_LABEL>>
     THEN jump(slice(src, args[1].label.start.offset, args[1].label.end.offset))
     ELSE [word |-> Shl32(inst.opcode, 26), error |-> NoError]

\* handlePseudoInstruction: the words it stores from address on
handlePseudoInstruction(g, address, src, name, args) ==
  LET move(rd, rs) ==
        storeWord(g, address,
                  Or32(Or32(Or32(Or32(Shl32(0, 26), Shl32(rs, 21)), Shl32(0, 16)),
                            Shl32(rd, 11)), 33))
      ori(h, at, rt, lower) ==
        storeWord(h, at, Or32(Or32(Or32(Shl32(13, 26), Shl32(rt, 21)), Shl32(rt, 16)), lower))
      lui(rt, upper) == storeWord(g, address, Or32(Or32(Shl32(15, 26), Shl32(rt, 16)), upper))
      li(rt, upper, lower) ==
        IF upper # 0 THEN ori(lui(rt, upper), address + 4, rt, lower)
        ELSE ori(g, address, rt, lower)
      load(rt, imm) == li(rt, And32(Sar32(imm, 16), 65535), And32(imm, 65535))
      thrown(regs) == Throw(g, Encoded(src, regs, 0).error)
  IN IF name = <<"m", "o", "v", "e">>
     THEN IF ArgTypes(args) = <<"INSTRUCTION_REGISTER", "INSTRUCTION_REGISTER">>
          THEN IF Encoded(src, <<args[1].register, args[2].register>>, 0).error # NoError
               THEN thrown(<<args[1].register, args[2].register>>)
               ELSE move(getRegisterNumber(src, args[1].register),
                         getRegisterNumber(src, args[2].register))
          ELSE g
     ELSE IF name = <<"l", "i">>
     THEN IF ArgTypes(args) = <<"INSTRUCTION_REGISTER", "INSTRUCTION_IMMEDIATE">>
          THEN IF Encoded(src, <<args[1].register>>, 0).error # NoError
               THEN thrown(<<args[1].register>>)
               ELSE load(getRegisterNumber(src, args[1].register), Int32Of(args[2].immediate))
          ELSE g
     ELSE IF name = <<"n", "o", "p">> THEN storeWord(g, address, 0)
     ELSE Throw(g, <<"Unimplemented pseudo-instruction: ", name>>)

\* the INSTRUCTION case of pass 2
emitInstruction(g, src, labels, inst, name, args) ==
  LET store(e) ==
        IF e.error # NoError THEN Throw(g, e.error)
        ELSE [storeWord(g, g.code, e.word) EXCEPT !.code = @ + 4]
  IN IF inst.pseudo THEN handlePseudoInstruction(g, g.code, src, name, args)
     ELSE IF inst.type = "R" THEN store(encodeRType(src, inst, name, args))
     ELSE IF inst.type = "I"
     THEN store(encodeIType(src, inst, name, args, labels, g.code))
     ELSE IF inst.type = "J"
     THEN store(encodeJType(src, inst, args, labels))
     ELSE store([word |-> 0, error |-> NoError])

\* one iteration of the loop of generate; emitted records the running code
\* address each INSTRUCTION node was encoded at
generateNode(src, g, labels, ns, i) ==
  LET noted == [g EXCEPT !.emitted = Append(@, [node |-> i, address |-> g.code])]
  IN IF ns[i].type = "DIRECTIVE" THEN emitDirective(g, OpName(src, ns[i]), ns[i].args)
     ELSE IF ns[i].type = "INSTRUCTION"
     THEN IF ~IsOp(OpName(src, ns[i]))
          THEN Throw(g, <<"Unknown instruction: ", OpName(src, ns[i])>>)
          ELSE emitInstruction(noted, src, labels, OpOf(OpName(src, ns[i])),
                               OpName(src, ns[i]), ns[i].args)
     ELSE IF ns[i].type = "LABEL" THEN g
     ELSE Throw(g, <<"Unreachable in generate", <<>>>>)

RECURSIVE generateLoop(_, _, _, _, _)
generateLoop(src, g, labels, ns, i) ==
  IF i > Len(ns) \/ g.error # NoError THEN g
  ELSE generateLoop(src, generateNode(src, g, labels, ns, i), labels, ns, i + 1)

\* generate: pass 1, then pass 2 unless pass 1 threw
generate(src, toks, ns) ==
  LET second(p) ==
        IF p.error # NoError
        THEN [mem |-> <<>>, emitted |-> <<>>, labels |-> <<>>, error |-> p.error]
        ELSE generateLoop(src,
                          [data |-> DATA_START, code |-> TEXT_START, section |-> "CODE",
                           mem |-> <<>>, emitted |-> <<>>, labels |-> p.labels,
                           error |-> NoError],
                          p.labels, ns, 1)
  IN second(mapLabelToAdress(src, toks, ns))

-----------------------------------------------------------------------------
(* Simulator (class MipsSimulator).  hi and lo, and the words of memory,   *)
(* are kept as the int32 holding their low 32 bits: they are read back     *)
(* only through Int32Array stores and 32-bit operators.                    *)

\* the initial stack pointer, imported from ./types
STACK_START == 2147479548

\* 64-bit unsigned product of two 32-bit values, as <<high word, low word>>
Add64(x, y) ==
  LET carried(low) ==
        <<Add32(Add32(x[1], y[1]), IF LessUnsigned(low, x[2]) THEN 1 ELSE 0), low>>
  IN carried(Add32(x[2], y[2]))

\* the product of two 16-bit values, as the int32 holding its 32 bits
Mul16(x, y) == Add32(Shl32(x * (y \div 256), 8), x * (y % 256))

\* a 32-bit value shifted left by 16, as a 64-bit pair
Shifted16(p) == <<Srl32(p, 16), Shl32(p, 16)>>

MulUnsigned(a, b) ==
  LET limbs(a1, a0, b1, b0) ==
        Add64(Add64(<<Mul16(a1, b1), Mul16(a0, b0)>>, Shifted16(Mul16(a0, b1))),
              Shifted16(Mul16(a1, b0)))
  IN limbs(Srl32(a, 16), a % 65536, Srl32(b, 16), b % 65536)

\* the two's-complement 64-bit product of two signed 32-bit values
MulSigned(a, b) ==
  LET fix(p) ==
        <<Sub32(Sub32(p[1], IF a < 0 THEN b ELSE 0), IF b < 0 THEN a ELSE 0), p[2]>>
  IN fix(MulUnsigned(a, b))

\* a quotient rounded toward minus infinity
TruncDivFloor(a, b) == a \div b

\* Math.trunc(a / b) and a % b for int32 a, b with b # 0, wrapped to int32
TruncDiv(a, b) ==
  LET positive(d) == IF a >= 0 \/ a % d = 0 THEN a \div d ELSE (a \div d) + 1
  IN IF b = MinInt32 THEN (IF a = MinInt32 THEN 1 ELSE 0)
     ELSE IF b > 0 THEN positive(b)
     ELSE IF a = MinInt32 /\ b = -1 THEN MinInt32
     ELSE 0 - positive(0 - b)

TruncRem(a, b) ==
  IF b = MinInt32 THEN (IF a = MinInt32 THEN 0 ELSE a)
  ELSE IF a = MinInt32 /\ b = -1 THEN 0
  ELSE a - b * TruncDiv(a, b)

\* the quotient and remainder of the unsigned readings of a and b, b # 0
DivUnsigned(a, b) ==
  LET halves(q0, r0, bit) ==
        IF (r0 - (b - r0)) + bit >= 0
        THEN <<Add32(Add32(q0, q0), 1), (r0 - (b - r0)) + bit>>
        ELSE <<Add32(q0, q0), 2 * r0 + bit>>
  IN IF b < 0 THEN (IF LessUnsigned(a, b) THEN <<0, a>> ELSE <<1, Sub32(a, b)>>)
     ELSE IF a >= 0 THEN <<a \div b, a % b>>
     ELSE halves(Srl32(a, 1) \div b, Srl32(a, 1) % b, a % 2)

\* new MipsSimulator(code, maxInstructions)
MipsSimulator(image, maxInstructions) ==
  [registers |-> [r \in 0..31 |-> IF r = 29 THEN STACK_START ELSE 0],
   pc |-> TEXT_START, hi |-> 0, lo |-> 0, mem |-> image, running |-> FALSE,
   instructionsExecuted |-> 0, maxInstructions |-> maxInstructions,
   console |-> <<>>, error |-> NoError]

SetRegister(s, r, value) == [s EXCEPT !.registers[r] = value]

\* let str = ""; while ((char = readByte(addr)) !== 0) { str += ...; addr++ }
RECURSIVE readString(_, _)
readString(mem, addr) ==
  IF readByte(mem, addr) = 0 THEN <<>>
  ELSE <<readByte(mem, addr)>> \o readString(mem, addr + 1)

Log(s, kind, value) == [s EXCEPT !.console = Append(@, <<kind, value>>)]

\* a syscall handler that ignores the numbers it does not know
handleSyscallLenient(s, syscallNum) ==
  IF syscallNum = 1 THEN Log(s, "int", s.registers[4])
  ELSE IF syscallNum = 2 THEN Log(s, "float", s.registers[4])
  ELSE IF syscallNum = 3 THEN Log(s, "double", s.registers[4])
  ELSE IF syscallNum = 4 THEN Log(s, "string", readString(s.mem, s.registers[4]))
  ELSE IF syscallNum = 5 THEN SetRegister(s, 2, 0)
  ELSE IF syscallNum \in {8, 9} THEN s
  ELSE IF syscallNum = 10 THEN [s EXCEPT !.running = FALSE]
  ELSE IF syscallNum = 11 THEN Log(s, "char", And32(s.registers[4], 255))
  ELSE IF syscallNum = 12 THEN SetRegister(s, 2, 0)
  ELSE IF syscallNum \in {13, 14, 15, 16} THEN SetRegister(s, 2, -1)
  ELSE IF syscallNum = 17 THEN SetRegister([s EXCEPT !.running = FALSE], 2, s.registers[4])
  ELSE s

\* handleSyscall(): the switch on $v0
handleSyscall(s, syscallNum) ==
  IF syscallNum = 1 THEN Log(s, "int", s.registers[4])
  ELSE IF syscallNum = 2 THEN Log(s, "float", s.registers[4])
  ELSE IF syscallNum = 3 THEN Log(s, "double", s.registers[4])
  ELSE IF syscallNum = 4 THEN Log(s, "string", readString(s.mem, s.registers[4]))
  ELSE IF syscallNum = 5 THEN SetRegister(s, 2, 0)
  ELSE IF syscallNum \in {8, 9} THEN s
  ELSE IF syscallNum = 10 THEN [s EXCEPT !.running = FALSE]
  ELSE IF syscallNum = 11 THEN Log(s, "char", And32(s.registers[4], 255))
  ELSE IF syscallNum = 12 THEN SetRegister(s, 2, 0)
  ELSE IF syscallNum \in {13, 14, 15, 16} THEN SetRegister(s, 2, -1)
  ELSE IF syscallNum = 17 THEN SetRegister([s EXCEPT !.running = FALSE], 2, s.registers[4])
  ELSE Throw(s, <<"Unsupported syscall: ", syscallNum>>)

\* a link that stores the address of the linking instruction itself
linkCurrent(s, r, nextPC) == SetRegister(s, r, nextPC - 4)

\* this.registers[r] = nextPC, the link of jal, jalr, bltzal and bgezal
link(s, r, nextPC) == SetRegister(s, r, nextPC)

\* the R-type switch of decodeAndExecute (opcode 0); nextPC is this.pc + 4
executeRType(s, rs, rt, rd, shamt, funct, nextPC) ==
  LET R(i) == s.registers[i]
      next(t) == IF t.error # NoError THEN t ELSE [t EXCEPT !.pc = nextPC]
      set(value) == next(SetRegister(s, rd, value))
      product(p) == next([s EXCEPT !.hi = p[1], !.lo = p[2]])
      quotient(qr) == next([s EXCEPT !.lo = qr[1], !.hi = qr[2]])
  IN CASE funct = 32 -> set(Add32(R(rs), R(rt)))
       [] funct = 33 -> set(Add32(R(rs), R(rt)))
       [] funct = 34 -> set(Sub32(R(rs), R(rt)))
       [] funct = 35 -> set(Sub32(R(rs), R(rt)))
       [] funct = 36 -> set(And32(R(rs), R(rt)))
       [] funct = 37 -> set(Or32(R(rs), R(rt)))
       [] funct = 38 -> set(Xor32(R(rs), R(rt)))
       [] funct = 39 -> set(Not32(Or32(R(rs), R(rt))))
       [] funct = 0 -> set(Shl32(R(rt), shamt))
       [] funct = 2 -> set(Srl32(R(rt), shamt))
       [] funct = 3 -> set(Sar32(R(rt), shamt))
       [] funct = 4 -> set(Shl32(R(rt), And32(R(rs), 31)))
       [] funct = 6 -> set(Srl32(R(rt), And32(R(rs), 31)))
       [] funct = 7 -> set(Sar32(R(rt), And32(R(rs), 31)))
       [] funct = 8 -> [s EXCEPT !.pc = R(rs)]
       [] funct = 9 -> [link(s, rd, nextPC) EXCEPT !.pc = link(s, rd, nextPC).registers[rs]]
       [] funct = 42 -> set(IF R(rs) < R(rt) THEN 1 ELSE 0)
       [] funct = 43 -> set(IF LessUnsigned(R(rs), R(rt)) THEN 1 ELSE 0)
       [] funct = 16 -> set(s.hi)
       [] funct = 17 -> next([s EXCEPT !.hi = R(rs)])
       [] funct = 18 -> set(s.lo)
       [] funct = 19 -> next([s EXCEPT !.lo = R(rs)])
       [] funct = 24 -> product(MulSigned(R(rs), R(rt)))
       [] funct = 25 -> product(MulUnsigned(R(rs), R(rt)))
       [] funct = 26 ->
            IF R(rt) # 0 THEN quotient(<<TruncDiv(R(rs), R(rt)), TruncRem(R(rs), R(rt))>>)
            ELSE next(s)
       [] funct = 27 ->
            IF R(rt) # 0 THEN quotient(DivUnsigned(R(rs), R(rt))) ELSE next(s)
       [] funct = 12 -> next(handleSyscall(s, R(2)))
       [] OTHER -> Throw(s, <<"Unsupported R-type instruction function: 0x", funct>>)

\* the switch on the opcode of decodeAndExecute (opcode # 0)
executeIType(s, opcode, rs, rt, immediate, signExtImm, address, nextPC) ==
  LET R(i) == s.registers[i]
      next(t) == IF t.error # NoError THEN t ELSE [t EXCEPT !.pc = nextPC]
      set(value) == next(SetRegister(s, rt, value))
      taken == [s EXCEPT !.pc = nextPC + Shl32(signExtImm, 2)]
      linked == [link(s, 31, nextPC) EXCEPT !.pc = nextPC + Shl32(signExtImm, 2)]
      target == Or32(And32(nextPC, Shl32(15, 28)), Shl32(address, 2))
      signedByte(b) == IF And32(b, 128) # 0 THEN Or32(b, -256) ELSE b
      signedHalf(h) == IF And32(h, 32768) # 0 THEN Or32(h, -65536) ELSE h
      misaligned(message) == Throw(s, <<message, <<>>>>)
      at(addr) ==
        CASE opcode = 35 ->
               IF CanReadWord(addr) THEN set(readWord(s.mem, addr))
               ELSE misaligned("Address must be word aligned")
          [] opcode = 43 -> next(storeWord(s, addr, R(rt)))
          [] opcode = 32 -> set(signedByte(readByte(s.mem, addr)))
          [] opcode = 36 -> set(And32(readByte(s.mem, addr), 255))
          [] opcode = 33 ->
               IF CanReadHalfWord(addr) THEN set(signedHalf(readHalfWord(s.mem, addr)))
               ELSE misaligned("Address must be half-word aligned")
          [] opcode = 37 ->
               IF CanReadHalfWord(addr) THEN set(And32(readHalfWord(s.mem, addr), 65535))
               ELSE misaligned("Address must be half-word aligned")
          [] opcode = 40 -> next(storeByte(s, addr, And32(R(rt), 255)))
          [] opcode = 41 -> next(storeHalfWord(s, addr, And32(R(rt), 65535)))
  IN CASE opcode = 8 -> set(Add32(R(rs), signExtImm))
       [] opcode = 9 -> set(Add32(R(rs), signExtImm))
       [] opcode = 12 -> set(And32(R(rs), immediate))
       [] opcode = 13 -> set(Or32(R(rs), immediate))
       [] opcode = 14 -> set(Xor32(R(rs), immediate))
       [] opcode = 15 -> set(Shl32(immediate, 16))
       [] opcode = 10 -> set(IF R(rs) < signExtImm THEN 1 ELSE 0)
       [] opcode = 11 -> set(IF LessUnsigned(R(rs), signExtImm) THEN 1 ELSE 0)
       [] opcode \in {35, 43, 32, 36, 33, 37, 40, 41} -> at(R(rs) + signExtImm)
       [] opcode = 4 -> IF R(rs) = R(rt) THEN taken ELSE next(s)
       [] opcode = 5 -> IF R(rs) # R(rt) THEN taken ELSE next(s)
       [] opcode = 6 -> IF R(rs) <= 0 THEN taken ELSE next(s)
       [] opcode = 7 -> IF R(rs) > 0 THEN taken ELSE next(s)
       [] opcode = 1 ->
            IF rt = 0 THEN (IF R(rs) < 0 THEN taken ELSE next(s))
            ELSE IF rt = 1 THEN (IF R(rs) >= 0 THEN taken ELSE next(s))
            ELSE IF rt = 16 THEN (IF R(rs) < 0 THEN linked ELSE next(s))
            ELSE IF rt = 17 THEN (IF R(rs) >= 0 THEN linked ELSE next(s))
            ELSE next(s)
       [] opcode = 2 -> [s EXCEPT !.pc = target]
       [] opcode = 3 -> [link(s, 31, nextPC) EXCEPT !.pc = target]
       [] OTHER -> Throw(s, <<"Unsupported opcode: 0x", opcode>>)

\* decodeAndExecute: the fields of the instruction word, then the switch
decodeAndExecute(s, word) ==
  LET signExtend(immediate) ==
        IF And32(immediate, 32768) # 0 THEN Or32(immediate, -65536) ELSE immediate
      immediateOf == And32(word, 65535)
  IN IF And32(Srl32(word, 26), 63) = 0
     THEN executeRType(s, And32(Srl32(word, 21), 31), And32(Srl32(word, 16), 31),
                       And32(Srl32(word, 11), 31), And32(Srl32(word, 6), 31),
                       And32(word, 63), s.pc + 4)
     ELSE executeIType(s, And32(Srl32(word, 26), 63),
                       And32(Srl32(word, 21), 31), And32(Srl32(word, 16), 31),
                       immediateOf, signExtend(immediateOf),
                       And32(word, 67108863), s.pc + 4)

\* an iteration that leaves $zero as the instruction wrote it
runStepKeepingZero(s) ==
  LET done(t) ==
        IF t.error # NoError THEN [t EXCEPT !.running = FALSE]
        ELSE [t EXCEPT !.instructionsExecuted = @ + 1]
  IN IF ~CanReadWord(s.pc)
     THEN [Throw(s, <<"Address must be word aligned", <<>>>>) EXCEPT !.running = FALSE]
     ELSE done(decodeAndExecute(s, readWord(s.mem, s.pc)))

\* one iteration of the loop of run(): fetch, decode and execute, clear
\* $zero, count; a throw is caught, stops the run and makes run return -1
runStep(s) ==
  LET done(t) ==
        IF t.error # NoError THEN [t EXCEPT !.running = FALSE]
        ELSE [SetRegister(t, 0, 0) EXCEPT !.instructionsExecuted = @ + 1]
  IN IF ~CanReadWord(s.pc)
     THEN [Throw(s, <<"Address must be word aligned", <<>>>>) EXCEPT !.running = FALSE]
     ELSE done(decodeAndExecute(s, readWord(s.mem, s.pc)))

\* the value run() returns once its loop has ended
runReturn(s) ==
  IF s.error # NoError THEN [exitCode |-> -1, instructionsExecuted |-> s.instructionsExecuted]
  ELSE IF s.instructionsExecuted >= s.maxInstructions
  THEN [exitCode |-> -2, instructionsExecuted |-> s.instructionsExecuted]
  ELSE [exitCode |-> s.registers[2], instructionsExecuted |-> s.instructionsExecuted]

-----------------------------------------------------------------------------
(* Validator (validate.ts) *)

\* a JavaScript number that is NaN or an integer: its sign and its decimal
\* digits, most significant first and without leading zeros (zero has none)
JSNumber(nan, neg, digits) ==
  [nan |-> nan, neg |-> ~nan /\ neg /\ digits # <<>>, digits |-> IF nan THEN <<>> ELSE digits]

\* the run of decimal digits of text from index i on: its digits and the
\* index after it
RECURSIVE digitRun(_, _, _)
digitRun(text, i, digits) ==
  IF i <= Len(text) /\ isDigit(text[i])
  THEN digitRun(text, i + 1,
                IF digits = <<>> /\ text[i] = "0" THEN <<>>
                ELSE Append(digits, DigitValue(text[i])))
  ELSE [next |-> i, digits |-> digits]

\* Number.parseInt(lexeme, 10): leading white space, an optional sign, then
\* the longest run of digits; NaN when that run is empty.  What follows the
\* run is ignored.  (No lexeme of a token starts with 0x, so the call
\* without a radix gives the same value.)
parseInt(lexeme) ==
  LET RECURSIVE skip(_)
      skip(i) == IF i <= Len(lexeme) /\ lexeme[i] \in {" ", "\t", "\n", "\r"}
                 THEN skip(i + 1) ELSE i
      from(i, neg, run) == JSNumber(run.next = i, neg, run.digits)
      at(i) == IF i <= Len(lexeme) /\ lexeme[i] \in {"+", "-"}
               THEN from(i + 1, lexeme[i] = "-", digitRun(lexeme, i + 1, <<>>))
               ELSE from(i, FALSE, digitRun(lexeme, i, <<>>))
  IN at(skip(1))

\* Number(lexeme): the text with the white space at both ends removed must
\* be a numeric literal as a whole; the empty text is 0.  Of the literal
\* forms only the signed decimal integer is modelled: the lexer ends a
\* NUMBER token at the first character that is not a digit, and a lexeme
\* that does not start with a sign or a digit is NaN for parseInt already.
Number(lexeme) ==
  LET RECURSIVE skip(_)
      skip(i) == IF i <= Len(lexeme) /\ lexeme[i] \in {" ", "\t", "\n", "\r"}
                 THEN skip(i + 1) ELSE i
      RECURSIVE back(_)
      back(i) == IF i >= 1 /\ lexeme[i] \in {" ", "\t", "\n", "\r"}
                 THEN back(i - 1) ELSE i
      from(i, last, neg, run) ==
        JSNumber(run.next = i \/ run.next # last + 1, neg, run.digits)
      at(i, last) ==
        IF i > last THEN JSNumber(FALSE, FALSE, <<>>)
        ELSE IF lexeme[i] \in {"+", "-"}
        THEN from(i + 1, last, lexeme[i] = "-", digitRun(lexeme, i + 1, <<>>))
        ELSE from(i, last, FALSE, digitRun(lexeme, i, <<>>))
  IN at(skip(1), back(Len(lexeme)))

\* a < b on JavaScript numbers: false when either side is NaN
Less(a, b) ==
  LET below(x, y) ==
        \/ Len(x) < Len(y)
        \/ /\ Len(x) = Len(y)
           /\ \E i \in DOMAIN x : x[i] < y[i] /\ \A j \in 1..(i - 1) : x[j] = y[j]
  IN /\ ~a.nan
     /\ ~b.nan
     /\ IF a.neg # b.neg THEN a.neg
        ELSE IF a.neg THEN below(b.digits, a.digits)
        ELSE below(a.digits, b.digits)

\* isNaN(value) || value < lo || value > hi, the bounds written as literals
OutOfRange(value, lo, hi) ==
  value.nan \/ Less(value, Number(lo)) \/ Less(Number(hi), value)

\* getTokenLexeme(token)
getTokenLexeme(src, token) == slice(src, token.start.offset, token.end.offset)

\* errors.push({ start, end, message })
pushError(v, start, end, message) ==
  [v EXCEPT !.errors = Append(@, Diagnostic(start, end, message))]

\* validateDirective(directive); v holds currentSection, errors and whether
\* a TypeError ended the call
validateDirective(src, v, dir) ==
  LET opName == slice(src, dir.op.start.offset, dir.op.end.offset)
      args == dir.args
      misplaced ==
        pushError(v, dir.start, dir.end,
                  <<"D", "a", "t", "a", " ", "d", "i", "r", "e", "c", "t", "i", "v", "e", " ">> \o opName \o <<" ", "u", "s", "e", "d", " ", "i", "n", " ", "c", "o", "d", "e", " ", "s", "e", "c", "t", "i", "o", "n">>)
      \* num !== Number(lexeme) || Number.isNaN(num) || num < lo || num > hi
      invalid(num, whole, lo, hi) ==
        num.nan \/ whole.nan \/ num # whole \/ OutOfRange(num, lo, hi)
      \* the loop over the arguments returns in its first iteration
      datum(token, lo, hi, message) ==
        IF invalid(parseInt(getTokenLexeme(src, token)), Number(getTokenLexeme(src, token)),
                   lo, hi)
        THEN pushError(v, token.start, token.end, message)
        ELSE v
      typed(arg, type, message) ==
        IF arg.tokens[1].type # type THEN pushError(v, arg.start, arg.end, message) ELSE v
      align(w) ==
        IF args = <<>> THEN [w EXCEPT !.threw = TRUE]
        ELSE IF invalid(parseInt(getTokenLexeme(src, args[1].tokens[1])),
                        Number(getTokenLexeme(src, args[1].tokens[1])), <<"0">>, <<"1", "6">>)
        THEN pushError(w, args[1].start, args[1].end,
                       <<"I", "n", "v", "a", "l", "i", "d", " ", "a", "l", "i", "g", "n", "m", "e", "n", "t", " ", "v", "a", "l", "u", "e", " ", "i", "n", " ", ".", "a", "l", "i", "g", "n", " ", "d", "i", "r", "e", "c", "t", "i", "v", "e">>)
        ELSE w
      section(name, message) ==
        IF Len(args) > 0
        THEN pushError([v EXCEPT !.section = name], args[1].start, args[1].end, message)
        ELSE [v EXCEPT !.section = name]
  IN CASE opName = <<".", "b", "y", "t", "e">> ->
            IF v.section = "CODE" THEN misplaced
            ELSE IF args = <<>> THEN v
            ELSE datum(args[1].tokens[1], <<"-", "1", "2", "8">>, <<"2", "5", "5">>,
                       <<"I", "n", "v", "a", "l", "i", "d", " ", "b", "y", "t", "e", " ", "v", "a", "l", "u", "e", " ", "i", "n", " ", ".", "b", "y", "t", "e", " ", "d", "i", "r", "e", "c", "t", "i", "v", "e">>)
       [] opName = <<".", "d", "a", "t", "a">> -> section("DATA", <<"U", "n", "e", "x", "p", "e", "c", "t", "e", "d", " ", "a", "r", "g", "u", "m", "e", "n", "t", "s", " ", "i", "n", " ", ".", "d", "a", "t", "a", " ", "d", "i", "r", "e", "c", "t", "i", "v", "e">>)
       [] opName = <<".", "h", "a", "l", "f">> ->
            IF v.section = "CODE" THEN misplaced
            ELSE IF args = <<>> THEN v
            ELSE datum(args[1].tokens[1], <<"-", "3", "2", "7", "6", "8">>, <<"6", "5", "5", "3", "5">>,
                       <<"I", "n", "v", "a", "l", "i", "d", " ", "h", "a", "l", "f", "w", "o", "r", "d", " ", "v", "a", "l", "u", "e", " ", "i", "n", " ", ".", "h", "a", "l", "f", " ", "d", "i", "r", "e", "c", "t", "i", "v", "e">>)
       [] opName = <<".", "w", "o", "r", "d">> ->
            IF v.section = "CODE" THEN misplaced
            ELSE IF args = <<>> THEN v
            ELSE datum(args[1].tokens[1], <<"-", "2", "1", "4", "7", "4", "8", "3", "6", "4", "8">>, <<"4", "2", "9", "4", "9", "6", "7", "2", "9", "5">>,
                       <<"I", "n", "v", "a", "l", "i", "d", " ", "w", "o", "r", "d", " ", "v", "a", "l", "u", "e", " ", "i", "n", " ", ".", "h", "a", "l", "f", " ", "d", "i", "r", "e", "c", "t", "i", "v", "e">>)
       [] opName \in {<<".", "t", "e", "x", "t">>, <<".", "c", "o", "d", "e">>} ->
            section("CODE", <<"U", "n", "e", "x", "p", "e", "c", "t", "e", "d", " ", "a", "r", "g", "u", "m", "e", "n", "t", "s", " ", "i", "n", " ", ".", "t", "e", "x", "t", " ", "d", "i", "r", "e", "c", "t", "i", "v", "e">>)
       [] opName = <<".", "a", "l", "i", "g", "n">> ->
            IF v.section = "CODE" THEN misplaced
            ELSE IF Len(args) > 1
            THEN align(pushError(v, dir.start, dir.end,
                                 <<"E", "x", "p", "e", "c", "t", "e", "d", " ", "o", "n", "e", " ", "n", "u", "m", "e", "r", "i", "c", "e", " ", "a", "r", "g", "u", "m", "e", "n", "t", " ", "i", "n", " ", ".", "a", "l", "i", "g", "n", " ", "d", "i", "r", "e", "c", "t", "i", "v", "e">>))
            ELSE align(v)
       [] opName \in {<<".", "a", "s", "c", "i", "i">>, <<".", "a", "s", "c", "i", "i", "z">>} ->
            IF v.section = "CODE" THEN misplaced
            ELSE IF args = <<>> THEN v
            ELSE typed(args[1], "STRING",
                       <<"E", "x", "p", "e", "c", "t", "e", "d", " ", "s", "t", "r", "i", "n", "g", " ", "a", "r", "g", "u", "m", "e", "n", "t", "s", " ", "i", "n", " ">> \o opName \o <<" ", "d", "i", "r", "e", "c", "t", "i", "v", "e">>)
       [] opName \in {<<".", "f", "l", "o", "a", "t">>, <<".", "d", "o", "u", "b", "l", "e">>} ->
            IF v.section = "CODE" THEN misplaced
            ELSE IF args = <<>> THEN v
            ELSE typed(args[1], "NUMBER",
                       <<"E", "x", "p", "e", "c", "t", "e", "d", " ", "f", "l", "o", "a", "t", "i", "n", "g", "-", "p", "o", "i", "n", "t", " ", "a", "r", "g", "u", "m", "e", "n", "t", "s", " ", "i", "n", " ">> \o opName \o <<" ", "d", "i", "r", "e", "c", "t", "i", "v", "e">>)
       [] opName = <<".", "s", "e", "c", "t", "i", "o", "n">> ->
            pushError(v, dir.start, dir.end, <<"U", "n", "s", "u", "p", "p", "o", "r", "t", "e", "d", " ", "d", "i", "r", "e", "c", "t", "i", "v", "e">>)
       [] OTHER -> v

\* validateInstruction(instruction), with the functions it dispatches to
validateInstruction(src, v, inst) ==
  LET op == getTokenLexeme(src, inst.op)
      args == inst.args
      RECURSIVE toString(_)
      toString(n) ==
        IF n < 10 THEN <<CHOOSE c \in Digits : DigitValue(c) = n>>
        ELSE toString(n \div 10) \o <<CHOOSE c \in Digits : DigitValue(c) = n % 10>>
      \* "Expected <count> for <op> instruction, got <args.length>"
      wrongCount(w, count) ==
        pushError(w, inst.start, inst.end,
                  <<"E", "x", "p", "e", "c", "t", "e", "d", " ">> \o count \o <<" ", "f", "o", "r", " ">> \o op \o <<" ", "i", "n", "s", "t", "r", "u", "c", "t", "i", "o", "n", ",", " ", "g", "o", "t", " ">>
                    \o toString(Len(args)))
      \* if (arg.type !== type) errors.push(... "Expected <what> for <op> instruction")
      expect(w, i, type, what) ==
        IF args[i].type # type
        THEN pushError(w, args[i].start, args[i].end,
                       <<"E", "x", "p", "e", "c", "t", "e", "d", " ">> \o what \o <<" ", "f", "o", "r", " ">> \o op \o <<" ", "i", "n", "s", "t", "r", "u", "c", "t", "i", "o", "n">>)
        ELSE w
      \* const value = Number.parseInt(getTokenLexeme(token), 10); if (isNaN(value) || ...)
      ranged(w, i, token, lo, hi, what) ==
        IF OutOfRange(parseInt(getTokenLexeme(src, token)), lo, hi)
        THEN pushError(w, args[i].start, args[i].end, what \o <<" ", "f", "o", "r", " ">> \o op \o <<" ", "i", "n", "s", "t", "r", "u", "c", "t", "i", "o", "n">>)
        ELSE w
      validateRType(w) ==
        IF Len(args) # 3 THEN wrongCount(w, <<"3", " ", "a", "r", "g", "u", "m", "e", "n", "t", "s">>)
        ELSE expect(expect(expect(w, 1, "INSTRUCTION_REGISTER", <<"r", "e", "g", "i", "s", "t", "e", "r", " ", "a", "s", " ", "a", "r", "g", "u", "m", "e", "n", "t", " ", "1">>),
                           2, "INSTRUCTION_REGISTER", <<"r", "e", "g", "i", "s", "t", "e", "r", " ", "a", "s", " ", "a", "r", "g", "u", "m", "e", "n", "t", " ", "2">>),
                    3, "INSTRUCTION_REGISTER", <<"r", "e", "g", "i", "s", "t", "e", "r", " ", "a", "s", " ", "a", "r", "g", "u", "m", "e", "n", "t", " ", "3">>)
      validateShift(w) ==
        LET amount(x) ==
              IF args[3].type # "INSTRUCTION_IMMEDIATE"
              THEN expect(x, 3, "INSTRUCTION_IMMEDIATE", <<"i", "m", "m", "e", "d", "i", "a", "t", "e", " ", "v", "a", "l", "u", "e", " ", "a", "s", " ", "s", "h", "i", "f", "t", " ", "a", "m", "o", "u", "n", "t">>)
              ELSE ranged(x, 3, args[3].immediate, <<"0">>, <<"3", "1">>,
                          <<"S", "h", "i", "f", "t", " ", "a", "m", "o", "u", "n", "t", " ", "m", "u", "s", "t", " ", "b", "e", " ", "i", "n", " ", "r", "a", "n", "g", "e", " ", "0", "-", "3", "1">>)
        IN IF Len(args) # 3 THEN wrongCount(w, <<"3", " ", "a", "r", "g", "u", "m", "e", "n", "t", "s">>)
           ELSE amount(expect(expect(w, 1, "INSTRUCTION_REGISTER", <<"r", "e", "g", "i", "s", "t", "e", "r", " ", "a", "s", " ", "a", "r", "g", "u", "m", "e", "n", "t", " ", "1">>),
                              2, "INSTRUCTION_REGISTER", <<"r", "e", "g", "i", "s", "t", "e", "r", " ", "a", "s", " ", "a", "r", "g", "u", "m", "e", "n", "t", " ", "2">>))
      validateIType(w) ==
        LET imm(x) ==
              IF args[3].type # "INSTRUCTION_IMMEDIATE"
              THEN expect(x, 3, "INSTRUCTION_IMMEDIATE", <<"i", "m", "m", "e", "d", "i", "a", "t", "e", " ", "v", "a", "l", "u", "e", " ", "a", "s", " ", "a", "r", "g", "u", "m", "e", "n", "t", " ", "3">>)
              ELSE ranged(x, 3, args[3].immediate, <<"-", "3", "2", "7", "6", "8">>, <<"3", "2", "7", "6", "7">>,
                          <<"I", "m", "m", "e", "d", "i", "a", "t", "e", " ", "v", "a", "l", "u", "e", " ", "m", "u", "s", "t", " ", "b", "e", " ", "a", " ", "1", "6", "-", "b", "i", "t", " ", "s", "i", "g", "n", "e", "d", " ", "i", "n", "t", "e", "g", "e", "r">>)
        IN IF Len(args) # 3 THEN wrongCount(w, <<"3", " ", "a", "r", "g", "u", "m", "e", "n", "t", "s">>)
           ELSE imm(expect(expect(w, 1, "INSTRUCTION_REGISTER", <<"r", "e", "g", "i", "s", "t", "e", "r", " ", "a", "s", " ", "a", "r", "g", "u", "m", "e", "n", "t", " ", "1">>),
                           2, "INSTRUCTION_REGISTER", <<"r", "e", "g", "i", "s", "t", "e", "r", " ", "a", "s", " ", "a", "r", "g", "u", "m", "e", "n", "t", " ", "2">>))
      validateLoadStore(w) ==
        LET disp(x) ==
              IF args[2].type # "INSTRUCTION_DISPLACEMENT"
              THEN expect(x, 2, "INSTRUCTION_DISPLACEMENT", <<"d", "i", "s", "p", "l", "a", "c", "e", "m", "e", "n", "t", " ", "a", "s", " ", "s", "e", "c", "o", "n", "d", " ", "a", "r", "g", "u", "m", "e", "n", "t">>)
              ELSE ranged(x, 2, args[2].disp, <<"-", "3", "2", "7", "6", "8">>, <<"3", "2", "7", "6", "7">>,
                          <<"D", "i", "s", "p", "l", "a", "c", "e", "m", "e", "n", "t", " ", "m", "u", "s", "t", " ", "b", "e", " ", "a", " ", "1", "6", "-", "b", "i", "t", " ", "s", "i", "g", "n", "e", "d", " ", "i", "n", "t", "e", "g", "e", "r">>)
        IN IF Len(args) # 2 THEN wrongCount(w, <<"2", " ", "a", "r", "g", "u", "m", "e", "n", "t", "s">>)
           ELSE disp(expect(w, 1, "INSTRUCTION_REGISTER", <<"r", "e", "g", "i", "s", "t", "e", "r", " ", "a", "s", " ", "f", "i", "r", "s", "t", " ", "a", "r", "g", "u", "m", "e", "n", "t">>))
      validateBranch(w) ==
        IF Len(args) # 3 THEN wrongCount(w, <<"3", " ", "a", "r", "g", "u", "m", "e", "n", "t", "s">>)
        ELSE expect(expect(expect(w, 1, "INSTRUCTION_REGISTER", <<"r", "e", "g", "i", "s", "t", "e", "r", " ", "a", "s", " ", "a", "r", "g", "u", "m", "e", "n", "t", " ", "1">>),
                           2, "INSTRUCTION_REGISTER", <<"r", "e", "g", "i", "s", "t", "e", "r", " ", "a", "s", " ", "a", "r", "g", "u", "m", "e", "n", "t", " ", "2">>),
                    3, "INSTRUCTION_IMMEDIATE", <<"l", "a", "b", "e", "l", " ", "a", "s", " ", "a", "r", "g", "u", "m", "e", "n", "t", " ", "3">>)
      validateBranchZ(w) ==
        IF Len(args) # 2 THEN wrongCount(w, <<"2", " ", "a", "r", "g", "u", "m", "e", "n", "t", "s">>)
        ELSE expect(expect(w, 1, "INSTRUCTION_REGISTER", <<"r", "e", "g", "i", "s", "t", "e", "r", " ", "a", "s", " ", "f", "i", "r", "s", "t", " ", "a", "r", "g", "u", "m", "e", "n", "t">>),
                    2, "INSTRUCTION_IMMEDIATE", <<"l", "a", "b", "e", "l", " ", "a", "s", " ", "s", "e", "c", "o", "n", "d", " ", "a", "r", "g", "u", "m", "e", "n", "t">>)
      validateJump(w) ==
        IF Len(args) # 1 THEN wrongCount(w, <<"1", " ", "a", "r", "g", "u", "m", "e", "n", "t">>)
        ELSE expect(w, 1, "INSTRUCTION_IMMEDIATE", <<"l", "a", "b", "e", "l", " ", "a", "s", " ", "a", "r", "g", "u", "m", "e", "n", "t">>)
      validateJumpr(w) ==
        IF Len(args) # 1 THEN wrongCount(w, <<"1", " ", "a", "r", "g", "u", "m", "e", "n", "t">>)
        ELSE expect(w, 1, "INSTRUCTION_REGISTER", <<"r", "e", "g", "i", "s", "t", "e", "r", " ", "a", "s", " ", "a", "r", "g", "u", "m", "e", "n", "t">>)
      validateMove(w) ==
        IF Len(args) # 2 THEN wrongCount(w, <<"2", " ", "a", "r", "g", "u", "m", "e", "n", "t", "s">>)
        ELSE expect(expect(w, 1, "INSTRUCTION_REGISTER", <<"r", "e", "g", "i", "s", "t", "e", "r", " ", "a", "s", " ", "a", "r", "g", "u", "m", "e", "n", "t", " ", "1">>),
                    2, "INSTRUCTION_REGISTER", <<"r", "e", "g", "i", "s", "t", "e", "r", " ", "a", "s", " ", "a", "r", "g", "u", "m", "e", "n", "t", " ", "2">>)
      validateLi(w) ==
        LET imm(x) ==
              IF args[2].type # "INSTRUCTION_IMMEDIATE"
              THEN expect(x, 2, "INSTRUCTION_IMMEDIATE", <<"i", "m", "m", "e", "d", "i", "a", "t", "e", " ", "v", "a", "l", "u", "e", " ", "a", "s", " ", "s", "e", "c", "o", "n", "d", " ", "a", "r", "g", "u", "m", "e", "n", "t">>)
              ELSE ranged(x, 2, args[2].immediate, <<"-", "2", "1", "4", "7", "4", "8", "3", "6", "4", "8">>, <<"2", "1", "4", "7", "4", "8", "3", "6", "4", "7">>,
                          <<"I", "m", "m", "e", "d", "i", "a", "t", "e", " ", "v", "a", "l", "u", "e", " ", "m", "u", "s", "t", " ", "b", "e", " ", "a", " ", "3", "2", "-", "b", "i", "t", " ", "s", "i", "g", "n", "e", "d", " ", "i", "n", "t", "e", "g", "e", "r">>)
        IN IF Len(args) # 2 THEN wrongCount(w, <<"2", " ", "a", "r", "g", "u", "m", "e", "n", "t", "s">>)
           ELSE imm(expect(w, 1, "INSTRUCTION_REGISTER", <<"r", "e", "g", "i", "s", "t", "e", "r", " ", "a", "s", " ", "f", "i", "r", "s", "t", " ", "a", "r", "g", "u", "m", "e", "n", "t">>))
      validateLa(w) ==
        IF Len(args) # 2 THEN wrongCount(w, <<"2", " ", "a", "r", "g", "u", "m", "e", "n", "t", "s">>)
        ELSE expect(expect(w, 1, "INSTRUCTION_REGISTER", <<"r", "e", "g", "i", "s", "t", "e", "r", " ", "a", "s", " ", "f", "i", "r", "s", "t", " ", "a", "r", "g", "u", "m", "e", "n", "t">>),
                    2, "INSTRUCTION_IMMEDIATE", <<"l", "a", "b", "e", "l", " ", "a", "s", " ", "s", "e", "c", "o", "n", "d", " ", "a", "r", "g", "u", "m", "e", "n", "t">>)
      validateStandalone(w) ==
        IF Len(args) # 0 THEN wrongCount(w, <<"n", "o", " ", "a", "r", "g", "u", "m", "e", "n", "t", "s">>) ELSE w
      dispatch(w) ==
        CASE op \in {<<"a", "d", "d">>, <<"a", "d", "d", "u">>, <<"s", "u", "b">>, <<"s", "u", "b", "u">>, <<"a", "n", "d">>, <<"o", "r">>, <<"x", "o", "r">>, <<"n", "o", "r">>, <<"s", "l", "t">>, <<"s", "l", "t", "u">>} ->
               validateRType(w)
          [] op \in {<<"s", "l", "l">>, <<"s", "r", "l">>, <<"s", "r", "a">>} -> validateShift(w)
          [] op \in {<<"a", "d", "d", "i">>, <<"a", "d", "d", "i", "u">>, <<"a", "n", "d", "i">>, <<"o", "r", "i">>, <<"x", "o", "r", "i">>, <<"s", "l", "t", "i">>, <<"s", "l", "t", "i", "u">>} ->
               validateIType(w)
          [] op \in {<<"l", "b">>, <<"l", "b", "u">>, <<"l", "h">>, <<"l", "h", "u">>, <<"l", "w">>, <<"s", "b">>, <<"s", "h">>, <<"s", "w">>} -> validateLoadStore(w)
          [] op \in {<<"b", "e", "q">>, <<"b", "n", "e">>} -> validateBranch(w)
          [] op \in {<<"b", "g", "e", "z">>, <<"b", "g", "t", "z">>, <<"b", "l", "e", "z">>, <<"b", "l", "t", "z">>} -> validateBranchZ(w)
          [] op \in {<<"j">>, <<"j", "a", "l">>} -> validateJump(w)
          [] op = <<"j", "r">> -> validateJumpr(w)
          [] op = <<"m", "o", "v", "e">> -> validateMove(w)
          [] op = <<"l", "i">> -> validateLi(w)
          [] op = <<"l", "a">> -> validateLa(w)
          [] op \in {<<"s", "y", "s", "c", "a", "l", "l">>, <<"n", "o", "p">>} -> validateStandalone(w)
          [] OTHER -> pushError(w, inst.start, inst.end,
                                <<"U", "n", "k", "n", "o", "w", "n", " ", "i", "n", "s", "t", "r", "u", "c", "t", "i", "o", "n", " ">> \o op)
  IN IF v.section # "CODE"
     THEN dispatch(pushError(v, inst.start, inst.end,
                             <<"I", "n", "s", "t", "r", "u", "c", "t", "i", "o", "n", " ", "u", "s", "e", "d", " ", "o", "u", "t", "s", "i", "d", "e", " ", "o", "f", " ", "c", "o", "d", "e", " ", "s", "e", "c", "t", "i", "o", "n">>))
     ELSE dispatch(v)

\* validate(source, tokens, nodes): currentSection starts as CODE; the loop
\* over the nodes ends early only when a call throws
validate(src, toks, ns) ==
  LET RECURSIVE loop(_, _)
      loop(v, i) ==
        IF i > Len(ns) \/ v.threw THEN v
        ELSE IF ns[i].type = "DIRECTIVE" THEN loop(validateDirective(src, v, ns[i]), i + 1)
        ELSE IF ns[i].type = "INSTRUCTION" THEN loop(validateInstruction(src, v, ns[i]), i + 1)
        ELSE loop(v, i + 1)
  IN loop([section |-> "CODE", errors |-> <<>>, threw |-> FALSE], 1)
-----------------------------------------------------------------------------
(* Pipeline state *)

NoResult == <<>>
NoSim == <<>>

\* the state before any stage has run on a source text
Fresh(src) ==
  /\ stage = "source"
  /\ source = src
  /\ tokens = <<>>
  /\ lexErrors = <<>>
  /\ nodes = <<>>
  /\ parseErrors = <<>>
  /\ parseThrew = FALSE
  /\ validateErrors = <<>>
  /\ validateThrew = FALSE
  /\ stored = <<>>
  /\ labelToAddress = <<>>
  /\ code = <<>>
  /\ emitted = <<>>
  /\ genError = NoError
  /\ sim = NoSim
  /\ steps = 0
  /\ runResult = NoResult

\* const tokenResult = lex(source)
DoLex ==
  /\ stage = "source"
  /\ LET r == lex(source)
     IN /\ tokens' = r.result
        /\ lexErrors' = r.errors
  /\ stage' = "lexed"
  /\ UNCHANGED <<stored, source, nodes, parseErrors, parseThrew, validateErrors, validateThrew, labelToAddress, code, emitted,
                 genError, sim, steps, runResult>>

\* const nodeResult = parse(source, tokenResult.result)
DoParse ==
  /\ stage = "lexed"
  /\ LET r == parse(source, tokens)
     IN /\ nodes' = IF r.threw THEN <<>> ELSE r.result
        /\ parseErrors' = IF r.threw THEN <<>> ELSE r.errors
        /\ parseThrew' = r.threw
  /\ stage' = "parsed"
  /\ UNCHANGED <<stored, source, tokens, lexErrors, validateErrors, validateThrew, labelToAddress,
                 code, emitted, genError, sim, steps, runResult>>

\* const validateResult = validate(source, tokenResult.result, nodeResult.result)
DoValidate ==
  /\ stage = "parsed"
  /\ ~parseThrew
  /\ LET r == validate(source, tokens, nodes)
     IN /\ validateErrors' = IF r.threw THEN <<>> ELSE r.errors
        /\ validateThrew' = r.threw
  /\ stage' = "validated"
  /\ UNCHANGED <<stored, source, tokens, lexErrors, nodes, parseErrors, parseThrew, labelToAddress,
                 code, emitted, genError, sim, steps, runResult>>

\* const code = generate(source, tokens, nodes); a throw leaves no image
DoGenerate ==
  /\ stage = "parsed"
  /\ ~parseThrew
  /\ LET g == generate(source, tokens, nodes)
     IN /\ labelToAddress' = g.labels
        /\ code' = IF g.error # NoError THEN <<>> ELSE g.mem
        /\ emitted' = g.emitted
        /\ genError' = g.error
  /\ stage' = "generated"
  /\ UNCHANGED <<stored, source, tokens, lexErrors, nodes, parseErrors, parseThrew, validateErrors, validateThrew, sim, steps,
                 runResult>>

\* const simulator = new MipsSimulator(code, maxInstructions)
NewSimulator(budgets) ==
  /\ stage = "generated"
  /\ genError = NoError
  /\ \E maxInstructions \in budgets : sim' = MipsSimulator(code, maxInstructions)
  /\ stage' = "constructed"
  /\ UNCHANGED <<stored, source, tokens, lexErrors, nodes, parseErrors, parseThrew, validateErrors, validateThrew, labelToAddress,
                 code, emitted, genError, steps, runResult>>

\* run(), up to its loop
RunStart ==
  /\ stage = "constructed"
  /\ sim' = [sim EXCEPT !.running = TRUE, !.instructionsExecuted = 0]
  /\ steps' = 0
  /\ stage' = "running"
  /\ UNCHANGED <<stored, source, tokens, lexErrors, nodes, parseErrors, parseThrew, validateErrors, validateThrew, labelToAddress,
                 code, emitted, genError, runResult>>

\* a loop that still iterates when the counter has reached the budget
RunStepOverBudget ==
  /\ stage = "running"
  /\ sim.running /\ sim.instructionsExecuted <= sim.maxInstructions
  /\ sim' = runStep(sim)
  /\ IF sim'.error # NoError
     THEN /\ runResult' = <<runReturn(sim')>>
          /\ stage' = "done"
          /\ steps' = steps
     ELSE /\ runResult' = runResult
          /\ stage' = stage
          /\ steps' = steps + 1
  /\ UNCHANGED <<stored, source, tokens, lexErrors, nodes, parseErrors, parseThrew, validateErrors, validateThrew, labelToAddress,
                 code, emitted, genError>>

\* one iteration of the loop of run(); the catch block returns from run()
RunStep ==
  /\ stage = "running"
  /\ sim.running /\ sim.instructionsExecuted < sim.maxInstructions
  /\ sim' = runStep(sim)
  /\ IF sim'.error # NoError
     THEN /\ runResult' = <<runReturn(sim')>>
          /\ stage' = "done"
          /\ steps' = steps
     ELSE /\ runResult' = runResult
          /\ stage' = stage
          /\ steps' = steps + 1
  /\ UNCHANGED <<stored, source, tokens, lexErrors, nodes, parseErrors, parseThrew, validateErrors, validateThrew, labelToAddress,
                 code, emitted, genError>>

\* the loop of run() has ended: run() returns
RunReturn ==
  /\ stage = "running"
  /\ ~(sim.running /\ sim.instructionsExecuted < sim.maxInstructions)
  /\ runResult' = <<runReturn(sim)>>
  /\ stage' = "done"
  /\ UNCHANGED <<stored, source, tokens, lexErrors, nodes, parseErrors, parseThrew, validateErrors, validateThrew, labelToAddress,
                 code, emitted, genError, sim, steps>>

RECURSIVE Flatten(_)
Flatten(ss) == IF ss = <<>> THEN <<>> ELSE Head(ss) \o Flatten(Tail(ss))

-----------------------------------------------------------------------------
(* Lexer specification: every source text over LexAlphabet up to MaxSrcLen *)

MaxSrcLen == 4

LexAlphabet == {" ", "\n", "\r", "#", "$", ",", ".", "\"", "\\", "-", "1", "a", ":", "@"}

LexSources == UNION {[1..n -> LexAlphabet] : n \in 0..MaxSrcLen}

InitLex == \E src \in LexSources : Fresh(src)

NextLex == DoLex

SpecLex == InitLex /\ [][NextLex]_vars

-----------------------------------------------------------------------------
(* Parser specification: a first line of arbitrary lexemes, followed by    *)
(* well-formed statements, each on a line of its own                        *)

MaxLineLexemes == 4
MaxTailLines == 1

ParseLexemes ==
  {<<"j", "r">>, <<"$", "4">>, <<",">>, <<".", "w", "o", "r", "d">>, <<"1">>, <<"x">>,
   <<"(">>, <<" ">>}

\* well-formed statements: text, the node type and operand count they parse to
WellFormed ==
  {[text |-> <<"j", "r", " ", "$", "4">>, type |-> "INSTRUCTION", nargs |-> 1],
   [text |-> <<"a", "d", "d", " ", "$", "1", ",", "$", "2", ",", "$", "3">>,
    type |-> "INSTRUCTION", nargs |-> 3],
   [text |-> <<"l", "w", " ", "$", "4", ",", "1", "(", "$", "4", ")">>,
    type |-> "INSTRUCTION", nargs |-> 2],
   [text |-> <<".", "w", "o", "r", "d", " ", "1", ",", "1">>, type |-> "DIRECTIVE", nargs |-> 2]}

FirstLines == UNION {[1..n -> ParseLexemes] : n \in 0..MaxLineLexemes}
TailLines == UNION {[1..n -> WellFormed] : n \in 0..MaxTailLines}

ParseSource(first, tail) ==
  Flatten(first) \o Flatten([i \in 1..Len(tail) |-> <<"\n">> \o tail[i].text])

InitParse == \E first \in FirstLines, tail \in TailLines : Fresh(ParseSource(first, tail))

NextParse == DoLex \/ DoParse

SpecParse == InitParse /\ [][NextParse]_vars

-----------------------------------------------------------------------------
(* Claims about the lexer, checked under SpecLex *)

Lexed == stage # "source"
Parsed == stage \notin {"source", "lexed"}

TokenText(src, t) == slice(src, t.start.offset, t.end.offset)

\* C4: lossless tokenization. The first token starts at offset 0, every token
\* starts where the previous one ends, every token other than EOF covers at
\* least one character, and the source slices of the tokens, concatenated in
\* order, are the source text.
C4_LosslessTokenization ==
  Lexed =>
    /\ tokens[1].start.offset = 0
    /\ \A i \in 2..Len(tokens) : tokens[i].start.offset = tokens[i - 1].end.offset
    /\ \A i \in 1..Len(tokens) :
         tokens[i].type # "EOF" => tokens[i].end.offset > tokens[i].start.offset
    /\ Flatten([i \in 1..Len(tokens) |-> TokenText(source, tokens[i])]) = source

\* a lexed source with a two-character NEWLINE and a signed NUMBER token
C4_Witness ==
  /\ Lexed
  /\ \E i \in 1..Len(tokens) :
       tokens[i].type = "NEWLINE" /\ tokens[i].end.offset = tokens[i].start.offset + 2
  /\ \E i \in 1..Len(tokens) :
       tokens[i].type = "NUMBER" /\ tokens[i].end.offset >= tokens[i].start.offset + 2

\* C5: the token sequence of every source holds exactly one EOF token, it is
\* the last token, and its start and end offsets are the length of the source.
C5_SingleFinalEOF ==
  Lexed =>
    /\ Cardinality({i \in 1..Len(tokens) : tokens[i].type = "EOF"}) = 1
    /\ tokens[Len(tokens)].type = "EOF"
    /\ tokens[Len(tokens)].start.offset = Len(source)
    /\ tokens[Len(tokens)].end.offset = Len(source)

\* a comment that runs to the end of the input, followed directly by EOF
C5_Witness ==
  /\ Lexed
  /\ Len(source) >= 3
  /\ Len(tokens) = 2
  /\ tokens[1].type = "COMMENT"

-----------------------------------------------------------------------------
(* Claims about the parser, checked under SpecParse *)

\* the text of line w starts at offset o of src, directly after a newline,
\* and runs to the end of its line
IsLineAt(src, o, w) ==
  /\ o >= 1
  /\ src[o] = "\n"
  /\ slice(src, o, o + Len(w)) = w
  /\ (o + Len(w) = Len(src) \/ (o + Len(w) < Len(src) /\ src[o + Len(w) + 1] = "\n"))

HasNodeFor(o, w) ==
  \E k \in 1..Len(nodes) :
    /\ nodes[k].type = w.type
    /\ nodes[k].start.offset = o
    /\ nodes[k].end.offset = o + Len(w.text)
    /\ Len(nodes[k].args) = w.nargs

\* C2: line-granular recovery. Whatever the first line holds, when parse
\* returns, every well-formed statement on a later line has its own node,
\* spanning exactly that statement, with all its operands.
C2_LaterLinesKeepTheirNodes ==
  (Parsed /\ ~parseThrew) =>
    \A w \in WellFormed : \A o \in 1..Len(source) :
      IsLineAt(source, o, w.text) => HasNodeFor(o, w)

\* C3: parse returns nodes and diagnostics for every token sequence lex
\* produces; it never ends by an exception.
C3_ParseNeverThrows == Parsed => ~parseThrew

-----------------------------------------------------------------------------
(* Code generator specification: programs of up to MaxPrefixLines context  *)
(* lines, one instruction under study, and an optional closing line, taken *)
(* through lex, parse and generate                                          *)

MaxPrefixLines == 1

\* lines that may stand before the instruction: a section directive, a
\* label, a one-word and a two-word pseudo-instruction, a real instruction
PrefixLines == {<<".", "t", "e", "x", "t">>, <<"L", ":">>, <<"n", "o", "p">>, <<"l", "i", " ", "$", "t", "0", ",", " ", "6", "5", "5", "3", "6">>, <<"s", "u", "b", " ", "$", "t", "0", ",", " ", "$", "t", "0", ",", " ", "$", "t", "0">>}

\* what may follow it
SuffixLines == {<<>>, <<"L", ":">>, <<"n", "o", "p">>}

ThreeRegisterOps ==
  {<<"a", "d", "d">>, <<"a", "d", "d", "u">>, <<"s", "u", "b">>, <<"s", "u", "b", "u">>, <<"a", "n", "d">>, <<"o", "r">>, <<"x", "o", "r">>, <<"n", "o", "r">>, <<"s", "l", "t">>, <<"s", "l", "t", "u">>}

ThreeRegisterLines ==
  {op \o <<" ">> \o rd \o <<",", " ">> \o rs \o <<",", " ">> \o rt :
     op \in ThreeRegisterOps,
     rd \in {<<"$", "t", "0">>, <<"$", "3", "1">>}, rs \in {<<"$", "t", "1">>, <<"$", "0">>, <<"$", "t", "2">>}, rt \in {<<"$", "t", "2">>, <<"$", "t", "1">>, <<"$", "a", "0">>}}

OverrideLines == {<<"j", "r", " ", "$", "r", "a">>, <<"j", "r", " ", "$", "t", "0">>, <<"s", "y", "s", "c", "a", "l", "l">>, <<"b", "r", "e", "a", "k">>, <<"s", "l", "l", " ", "$", "t", "0", ",", " ", "$", "t", "1", ",", " ", "2">>}

\* branches and jumps to the label L, which the context may define, and to
\* the label M, which no program defines
BranchLines ==
  {op \o <<" ">> \o rs \o <<",", " ">> \o rt \o <<",", " ">> \o target :
     op \in {<<"b", "e", "q">>, <<"b", "n", "e">>}, rs \in {<<"$", "t", "0">>, <<"$", "0">>}, rt \in {<<"$", "t", "1">>, <<"$", "0">>}, target \in {<<"L">>, <<"M">>}}

JumpLines == {op \o <<" ">> \o target : op \in {<<"j">>, <<"j", "a", "l">>}, target \in {<<"L">>, <<"M">>}}

SubjectLines == ThreeRegisterLines \union OverrideLines \union BranchLines \union JumpLines

Prefixes == UNION {[1..n -> PrefixLines] : n \in 0..MaxPrefixLines}

GenSource(prefix, subject, suffix) ==
  Flatten([i \in 1..Len(prefix) |-> prefix[i] \o <<"\n">>]) \o subject
    \o (IF suffix = <<>> THEN <<>> ELSE <<"\n">> \o suffix)

InitGen ==
  \E prefix \in Prefixes, subject \in SubjectLines, suffix \in SuffixLines :
    Fresh(GenSource(prefix, subject, suffix))

NextGen == DoLex \/ DoParse \/ DoGenerate

SpecGen == InitGen /\ [][NextGen]_vars

-----------------------------------------------------------------------------
(* Claims about the code generator, checked under SpecGen *)

Generated == stage = "generated"

\* the INSTRUCTION node the k-th encoding was made for, its mnemonic, and
\* the register number and the name its i-th operand spells
EmittedNode(k) == nodes[emitted[k].node]
EmittedName(k) == OpName(source, EmittedNode(k))
OperandRegister(k, i) ==
  RegisterNumber(Tail(TokenText(source, EmittedNode(k).args[i].register)))
OperandName(k, i) == TokenText(source, EmittedNode(k).args[i].immediate)

IsThreeRegister(k) ==
  /\ EmittedName(k) \in ThreeRegisterOps
  /\ Len(EmittedNode(k).args) = 3
  /\ \A i \in 1..3 : EmittedNode(k).args[i].type = "INSTRUCTION_REGISTER"

\* C6: for every three-register R-type instruction op rd, rs, rt generate
\* returns an image that holds, at the code address the instruction was
\* encoded at, the word opcode<<26 | rs<<21 | rt<<16 | rd<<11 | funct with
\* the register numbers of the register table; the program
\* .text / add $t0, $t1, $t2 holds 0x012A4020 at the code base address.
C6_ThreeRegisterEncoding ==
  Generated =>
    /\ \A k \in 1..Len(emitted) :
         IsThreeRegister(k) =>
           /\ genError = NoError
           /\ emitted[k].address \in DOMAIN code
           /\ code[emitted[k].address]
                = OpOf(EmittedName(k)).opcode * 2^26
                  + OperandRegister(k, 2) * 2^21
                  + OperandRegister(k, 3) * 2^16
                  + OperandRegister(k, 1) * 2^11
                  + OpOf(EmittedName(k)).funct
    /\ source = <<".", "t", "e", "x", "t">> \o <<"\n">> \o <<"a", "d", "d", " ", "$", "t", "0", ",", " ", "$", "t", "1", ",", " ", "$", "t", "2">> =>
         /\ genError = NoError
         /\ TEXT_START \in DOMAIN code
         /\ code[TEXT_START] = 19546144

\* an image generated for a three-register instruction whose rs and rt
\* differ and that stands after a two-word li
C6_Witness ==
  /\ Generated
  /\ \E k \in 2..Len(emitted) :
       /\ IsThreeRegister(k)
       /\ EmittedName(k) = <<"s", "l", "t">>
       /\ OperandRegister(k, 2) # OperandRegister(k, 3)
       /\ EmittedName(k - 1) = <<"l", "i">>
       /\ code[emitted[k].address] = 2^21 * 10 + 2^16 * 4 + 2^11 * 31 + 42

IsRType(k) == OpOf(EmittedName(k)).type = "R"

\* C7: the word emitted for an R-type mnemonic, jr, syscall and break
\* included, has bits 5-0 equal to the funct code of its descriptor.
C7_FunctBits ==
  Generated =>
    \A k \in 1..Len(emitted) :
      IsRType(k) =>
        /\ genError = NoError
        /\ emitted[k].address \in DOMAIN code
        /\ code[emitted[k].address] % 64 = OpOf(EmittedName(k)).funct

IsBranch(k) ==
  /\ EmittedName(k) \in {<<"b", "e", "q">>, <<"b", "n", "e">>}
  /\ Len(EmittedNode(k).args) = 3
  /\ EmittedNode(k).args[1].type = "INSTRUCTION_REGISTER"
  /\ EmittedNode(k).args[2].type = "INSTRUCTION_REGISTER"
  /\ EmittedNode(k).args[3].type = "INSTRUCTION_IMMEDIATE"
  /\ EmittedNode(k).args[3].immediate.type = "IDENTIFIER"

IsJump(k) ==
  /\ EmittedName(k) \in {<<"j">>, <<"j", "a", "l">>}
  /\ Len(EmittedNode(k).args) = 1
  /\ EmittedNode(k).args[1].type = "INSTRUCTION_IMMEDIATE"
  /\ EmittedNode(k).args[1].immediate.type = "IDENTIFIER"

\* the labels that LABEL nodes of the program define
DefinedLabels ==
  {slice(source, nodes[i].start.offset, nodes[i].end.offset - 1) :
     i \in {j \in 1..Len(nodes) : nodes[j].type = "LABEL"}}

\* C8: for beq/bne rs, rt, label with a label the program defines, the word
\* emitted at address a is
\* opcode<<26 | rs<<21 | rt<<16 | (((labelAddress - (a + 4)) / 4) mod 2^16).
C8_BranchOffset ==
  Generated =>
    \A k \in 1..Len(emitted) :
      (IsBranch(k) /\ OperandName(k, 3) \in DefinedLabels) =>
        /\ genError = NoError
        /\ emitted[k].address \in DOMAIN code
        /\ OperandName(k, 3) \in DOMAIN labelToAddress
        /\ code[emitted[k].address]
             = OpOf(EmittedName(k)).opcode * 2^26
               + OperandRegister(k, 1) * 2^21
               + OperandRegister(k, 2) * 2^16
               + (((labelToAddress[OperandName(k, 3)] - (emitted[k].address + 4)) \div 4)
                    % 65536)

\* C9: for j/jal label with a label the program defines, the emitted word is
\* opcode<<26 | (((labelAddress & 0x0FFFFFFF) >> 2) & 0x03FFFFFF).
C9_JumpTarget ==
  Generated =>
    \A k \in 1..Len(emitted) :
      (IsJump(k) /\ OperandName(k, 1) \in DefinedLabels) =>
        /\ genError = NoError
        /\ emitted[k].address \in DOMAIN code
        /\ OperandName(k, 1) \in DOMAIN labelToAddress
        /\ code[emitted[k].address]
             = OpOf(EmittedName(k)).opcode * 2^26
               + (((labelToAddress[OperandName(k, 1)] % 268435456) \div 4) % 67108864)

\* the operand that names the target of the k-th encoded instruction
TargetName(k) == IF IsBranch(k) THEN OperandName(k, 3) ELSE OperandName(k, 1)

\* C10: when a branch or jump names a label that no LABEL node defines,
\* generate fails with "Unknown label: <name>" and returns no image.
C10_UnknownLabelIsFatal ==
  Generated =>
    \A k \in 1..Len(emitted) :
      ((IsBranch(k) \/ IsJump(k)) /\ TargetName(k) \notin DefinedLabels) =>
        /\ genError = <<"Unknown label: ", TargetName(k)>>
        /\ code = <<>>

-----------------------------------------------------------------------------
(* End-to-end specification: the program .text / li $v0, 1 / li $a0, n /   *)
(* syscall, assembled and run under a step budget that leaves room for     *)
(* every word the program could assemble to                                 *)

MaxBudget == 8

\* the literals n, spanning one-word and two-word li
LiLiterals ==
  {<<"0">>, <<"1">>, <<"4", "2">>, <<"6", "5", "5", "3", "5">>, <<"6", "5", "5", "3", "6">>, <<"-", "1">>, <<"-", "3", "2", "7", "6", "8">>, <<"2", "1", "4", "7", "4", "8", "3", "6", "4", "7">>, <<"-", "2", "1", "4", "7", "4", "8", "3", "6", "4", "7">>}

RunBudgets == 4..MaxBudget

PrintProgram(n) ==
  <<".", "t", "e", "x", "t">> \o <<"\n">> \o <<"l", "i", " ", "$", "v", "0", ",", " ", "1">> \o <<"\n">> \o <<"l", "i", " ", "$", "a", "0", ",", " ">> \o n \o <<"\n">> \o <<"s", "y", "s", "c", "a", "l", "l">>

InitRun == \E n \in LiLiterals : Fresh(PrintProgram(n))

NextRun ==
  DoLex \/ DoParse \/ DoGenerate \/ NewSimulator(RunBudgets) \/ RunStart \/ RunStep \/ RunReturn

SpecRun == InitRun /\ [][NextRun]_vars

\* C1: running the image of .text / li $v0, 1 / li $a0, n / syscall performs
\* the print-integer syscall with $a0 = n, and run returns
\* instructionsExecuted equal to the number of steps taken.
C1_PrintsImmediate ==
  stage = "done" =>
    /\ \E i \in 1..Len(sim.console) :
         /\ sim.console[i][1] = "int"
         /\ sim.console[i][2] = Int32Of(nodes[3].args[2].immediate)
    /\ runResult[1].instructionsExecuted = steps

-----------------------------------------------------------------------------
(* Programs of two li pseudo-instructions, taken through lex, parse and    *)
(* generate                                                                 *)

LiRegisters == {<<"$", "t", "0">>, <<"$", "s", "0">>}

LiProgram(r1, n1, r2, n2) ==
  <<".", "t", "e", "x", "t">> \o <<"\n">> \o <<"l", "i", " ">> \o r1 \o <<",", " ">> \o n1 \o <<"\n">> \o <<"l", "i", " ">> \o r2 \o <<",", " ">> \o n2

InitLi ==
  \E r1 \in LiRegisters, n1 \in LiLiterals, r2 \in LiRegisters, n2 \in LiLiterals :
    Fresh(LiProgram(r1, n1, r2, n2))

NextLi == DoLex \/ DoParse \/ DoGenerate

SpecLi == InitLi /\ [][NextLi]_vars

\* the words of the image
ImageWords == {code[a] : a \in DOMAIN code}

\* C11: the image generated for .text / li $t0, 42 / li $s0, -1 holds three
\* instruction words: ori $t0, $t0, 42, then lui $s0, 0xFFFF and
\* ori $s0, $s0, 0xFFFF.
C11_LiWordsAllPresent ==
  (Generated /\ source = LiProgram(<<"$", "t", "0">>, <<"4", "2">>, <<"$", "s", "0">>, <<"-", "1">>)) =>
    /\ genError = NoError
    /\ Cardinality(DOMAIN code) = 3
    /\ {889716778, 1007747071, 907083775} \subseteq ImageWords
-----------------------------------------------------------------------------
(* Single instructions with operand lists of every shape, taken through    *)
(* lex, parse and generate                                                  *)

ShapeOps == {<<"a", "d", "d">>, <<"s", "u", "b">>, <<"m", "u", "l", "t">>, <<"d", "i", "v">>, <<"m", "f", "h", "i">>, <<"s", "l", "l">>, <<"j", "r">>, <<"a", "d", "d", "i">>, <<"l", "u", "i">>, <<"l", "w">>}

OperandLists ==
  {<<"$", "t", "0">>, <<"$", "t", "0", ",", " ", "$", "t", "1">>, <<"$", "t", "0", ",", " ", "$", "t", "1", ",", " ", "$", "t", "2">>, <<"$", "t", "0", ",", " ", "$", "t", "1", ",", " ", "4">>, <<"$", "t", "0", ",", " ", "4">>, <<"$", "t", "0", ",", " ", "4", "(", "$", "t", "1", ")">>}

InitShape == \E op \in ShapeOps, operands \in OperandLists : Fresh(op \o <<" ">> \o operands)

NextShape == DoLex \/ DoParse \/ DoGenerate

SpecShape == InitShape /\ [][NextShape]_vars

\* the operand kinds the encoder of a mnemonic tests for before it fills the
\* fields of the word
ExpectedShape(name) ==
  IF name = <<"j", "r">> THEN <<"INSTRUCTION_REGISTER">>
  ELSE IF name \in {<<"s", "l", "l">>, <<"s", "r", "l">>, <<"s", "r", "a">>}
  THEN <<"INSTRUCTION_REGISTER", "INSTRUCTION_REGISTER", "INSTRUCTION_IMMEDIATE">>
  ELSE IF OpOf(name).type = "R"
  THEN <<"INSTRUCTION_REGISTER", "INSTRUCTION_REGISTER", "INSTRUCTION_REGISTER">>
  ELSE IF name = <<"l", "u", "i">> THEN <<"INSTRUCTION_REGISTER", "INSTRUCTION_IMMEDIATE">>
  ELSE IF name \in {<<"l", "w">>, <<"s", "w">>, <<"l", "b">>, <<"l", "h">>, <<"l", "b", "u">>, <<"l", "h", "u">>, <<"s", "b">>, <<"s", "h">>}
  THEN <<"INSTRUCTION_REGISTER", "INSTRUCTION_DISPLACEMENT">>
  ELSE <<"INSTRUCTION_REGISTER", "INSTRUCTION_REGISTER", "INSTRUCTION_IMMEDIATE">>

Misshaped(k) ==
  /\ EmittedName(k) \in ShapeOps
  /\ ArgTypes(EmittedNode(k).args) # ExpectedShape(EmittedName(k))

\* C12: when the operands of an instruction do not have the count and kinds
\* its encoder expects, generate fails and stores no word for it.
C12_MisshapedOperandsFail ==
  Generated =>
    \A k \in 1..Len(emitted) :
      Misshaped(k) => (genError # NoError /\ emitted[k].address \notin DOMAIN code)
-----------------------------------------------------------------------------
(* Simulator specification: memory images of up to MaxProgramLen           *)
(* instruction words stored from the code base on, run under every step    *)
(* budget up to MaxSimBudget                                                *)

MaxProgramLen == 3
MaxSimBudget == 4

\* instruction words by format
RWord(rs, rt, rd, shamt, funct) ==
  Or32(Or32(Or32(Or32(Shl32(rs, 21), Shl32(rt, 16)), Shl32(rd, 11)), Shl32(shamt, 6)), funct)
IWord(opcode, rs, rt, immediate) ==
  Or32(Or32(Or32(Shl32(opcode, 26), Shl32(rs, 21)), Shl32(rt, 16)), And32(immediate, 65535))
JWord(opcode, target) == Or32(Shl32(opcode, 26), (target \div 4) % 67108864)

\* the words a program is made of: loads of small constants into $v0, $a0,
\* $t0 and $t1, syscall, divisions of and by $t0, $t1 and $sp, and by $a1,
\* which always holds 0, the linking jumps and branches, a word whose destination is $zero,
\* and words with an unsupported funct and an unsupported opcode
SimWords ==
  {IWord(9, 0, 2, 10), IWord(9, 0, 2, 17), IWord(9, 0, 2, 6),
   IWord(9, 0, 4, 5), IWord(9, 0, 4, -2),
   IWord(9, 0, 8, -7), IWord(9, 0, 9, 2),
   RWord(0, 0, 0, 0, 12),
   RWord(8, 9, 0, 0, 26), RWord(29, 8, 0, 0, 26), RWord(8, 29, 0, 0, 27),
   RWord(29, 5, 0, 0, 26), RWord(29, 5, 0, 0, 27),
   JWord(3, TEXT_START + 16),
   RWord(29, 0, 31, 0, 9), RWord(29, 0, 8, 0, 9), RWord(29, 0, 0, 0, 9), RWord(29, 0, 29, 0, 9),
   IWord(1, 8, 16, 1), IWord(1, 8, 17, 1),
   RWord(8, 9, 0, 0, 32),
   RWord(0, 0, 0, 0, 13), IWord(63, 0, 0, 0)}

SimPrograms == UNION {[1..n -> SimWords] : n \in 1..MaxProgramLen}

\* new Code(), then storeWord for each word of the program
RECURSIVE Image(_, _, _)
Image(c, program, i) ==
  IF i > Len(program) THEN c
  ELSE Image(storeWord(c, TEXT_START + 4 * (i - 1), program[i]), program, i + 1)

SimBudgets == 1..MaxSimBudget

InitSim ==
  \E program \in SimPrograms :
    /\ stage = "generated"
    /\ source = <<>>
    /\ tokens = <<>>
    /\ lexErrors = <<>>
    /\ nodes = <<>>
    /\ parseErrors = <<>>
    /\ parseThrew = FALSE
    /\ validateErrors = <<>>
    /\ validateThrew = FALSE
    /\ stored = <<>>
    /\ labelToAddress = <<>>
    /\ code = Image([mem |-> <<>>, error |-> NoError], program, 1).mem
    /\ emitted = <<>>
    /\ genError = NoError
    /\ sim = NoSim
    /\ steps = 0
    /\ runResult = NoResult

NextSim == NewSimulator(SimBudgets) \/ RunStart \/ RunStep \/ RunReturn

SpecSim == InitSim /\ [][NextSim]_vars

-----------------------------------------------------------------------------
(* Claims about the simulator, checked under SpecSim *)

Returned == stage = "done"

\* run has returned after handleSyscall cleared the running flag: only the
\* exit syscalls (10 and 17) clear it without a fault
ExitedBySyscall == Returned /\ ~sim.running /\ sim.error = NoError

\* C13: a run that ends by executing an exit syscall is reported neither as
\* a fault (exitCode -1) nor as budget exhaustion (exitCode -2), also when
\* the exit syscall is the last instruction the budget allows.
C13_ExitIsDistinguished ==
  ExitedBySyscall => runResult[1].exitCode \notin {-1, -2}

WithinBudget == sim.instructionsExecuted < sim.maxInstructions

\* C14: when the program executes syscall 10 within the budget, run returns
\* exitCode 0; when it executes syscall 17, run returns the value $a0 held.
\* (handleSyscall leaves $v0 = 10 after exit and $v0 = $a0 after exit2, which
\* tells the two apart in the returned state unless $a0 is 10 as well.)
C14_ExitCodes ==
  (ExitedBySyscall /\ WithinBudget) =>
    /\ sim.registers[2] # 10 => runResult[1].exitCode = sim.registers[4]
    /\ (sim.registers[2] = 10 /\ sim.registers[4] # 10) => runResult[1].exitCode = 0

Constructed == stage \in {"constructed", "running", "done"}

\* C15: register 0 holds zero at every step boundary of the simulator: after
\* construction, after every completed step, and in the state run returns
\* from after a fault or after the budget is exhausted.
C15_ZeroRegister == Constructed => sim.registers[0] = 0

\* a step has executed add $zero, $t0, $t1 with $t0 + $t1 = -5
C15_Witness ==
  /\ stage = "running"
  /\ steps = 3
  /\ sim.pc = TEXT_START + 12
  /\ readWord(sim.mem, TEXT_START + 8) = RWord(8, 9, 0, 0, 32)
  /\ sim.registers[8] = -7
  /\ sim.registers[9] = 2
  /\ sim.registers[0] = 0

\* the word the next step fetches and its fields
FetchedWord == readWord(sim.mem, sim.pc)
OpcodeField(w) == And32(Srl32(w, 26), 63)
RsField(w) == And32(Srl32(w, 21), 31)
RtField(w) == And32(Srl32(w, 16), 31)
RdField(w) == And32(Srl32(w, 11), 31)
FunctField(w) == And32(w, 63)
SignExtImm(w) == IF And32(w, 32768) # 0 THEN Or32(And32(w, 65535), -65536) ELSE And32(w, 65535)

\* a step of the run loop that fetches and completes an instruction
Executes == stage = "running" /\ stage' = "running" /\ steps' = steps + 1

IsJal(w) == OpcodeField(w) = 3
IsJalr(w) == OpcodeField(w) = 0 /\ FunctField(w) = 9
TakenBltzal(w) == OpcodeField(w) = 1 /\ RtField(w) = 16 /\ sim.registers[RsField(w)] < 0
TakenBgezal(w) == OpcodeField(w) = 1 /\ RtField(w) = 17 /\ sim.registers[RsField(w)] >= 0

LinkTarget(w) ==
  IF IsJal(w) THEN Or32(And32(sim.pc + 4, -268435456), Shl32(And32(w, 67108863), 2))
  ELSE IF IsJalr(w) THEN sim.registers[RsField(w)]
  ELSE sim.pc + 4 + Shl32(SignExtImm(w), 2)

Fetches == stage = "running" /\ sim' # sim

IsDiv(w) == OpcodeField(w) = 0 /\ FunctField(w) = 26
IsDivu(w) == OpcodeField(w) = 0 /\ FunctField(w) = 27

Magnitude(x) == IF x < 0 THEN 0 - x ELSE x

\* q and r are the quotient of a by b truncated toward zero and its
\* remainder, on the signed readings
SignedQuotient(a, b, q, r) ==
  /\ a = q * b + r
  /\ Magnitude(r) < Magnitude(b)
  /\ r = 0 \/ (r < 0) = (a < 0)

\* the same on the unsigned readings of the four 32-bit values: q * b does
\* not carry into a 33rd bit, q * b + r is a, and r is below b
UnsignedQuotient(a, b, q, r) ==
  /\ MulUnsigned(q, b)[1] = 0
  /\ Add32(MulUnsigned(q, b)[2], r) = a
  /\ ~LessUnsigned(a, r)
  /\ LessUnsigned(r, b)

\* C17: div or divu with a divisor register that holds 0 leaves HI, LO and
\* every general register unchanged, does not fault and advances the program
\* counter by 4; with a non-zero divisor LO holds the quotient truncated
\* toward zero and HI the remainder.
C17_Division ==
  [][(Fetches /\ (IsDiv(FetchedWord) \/ IsDivu(FetchedWord)))
       => /\ sim'.error = NoError
          /\ sim'.pc = sim.pc + 4
          /\ sim'.registers = sim.registers
          /\ IF sim.registers[RtField(FetchedWord)] = 0
             THEN sim'.hi = sim.hi /\ sim'.lo = sim.lo
             ELSE IF IsDiv(FetchedWord)
             THEN SignedQuotient(sim.registers[RsField(FetchedWord)],
                                 sim.registers[RtField(FetchedWord)], sim'.lo, sim'.hi)
             ELSE UnsignedQuotient(sim.registers[RsField(FetchedWord)],
                                   sim.registers[RtField(FetchedWord)], sim'.lo, sim'.hi)]_vars

\* div $sp, $t0 with $t0 = -7 has left a negative quotient and a positive
\* remainder, and div $sp, $a1 with $a1 = 0 has been executed after it
C17_Witness ==
  /\ stage = "running"
  /\ steps = 3
  /\ readWord(sim.mem, TEXT_START + 4) = RWord(29, 8, 0, 0, 26)
  /\ readWord(sim.mem, TEXT_START + 8) = RWord(29, 5, 0, 0, 26)
  /\ sim.registers[8] = -7
  /\ sim.lo = -306782792
  /\ sim.hi = 4
  /\ sim.pc = TEXT_START + 12

\* the syscall numbers, functs and opcodes that decodeAndExecute and
\* handleSyscall have a case for
SupportedSyscalls == {1, 2, 3, 4, 5, 8, 9, 10, 11, 12, 13, 14, 15, 16, 17}
SupportedFuncts ==
  {0, 2, 3, 4, 6, 7, 8, 9, 12, 16, 17, 18, 19, 24, 25, 26, 27, 32, 33, 34, 35, 36, 37, 38,
   39, 42, 43}
SupportedOpcodes ==
  {0, 1, 2, 3, 4, 5, 6, 7, 8, 9, 10, 11, 12, 13, 14, 15, 32, 33, 35, 36, 37, 40, 41, 43}

Unsupported(w) ==
  \/ OpcodeField(w) \notin SupportedOpcodes
  \/ OpcodeField(w) = 0 /\ FunctField(w) \notin SupportedFuncts
  \/ OpcodeField(w) = 0 /\ FunctField(w) = 12 /\ sim.registers[2] \notin SupportedSyscalls

\* C18: a step that fetches syscall with $v0 outside the supported numbers,
\* or a word with an unsupported opcode or funct, ends the run: run returns
\* exitCode -1 with instructionsExecuted equal to the number of instructions
\* completed before it, and no instruction is fetched after run returned.
C18_FaultOutcome ==
  [][/\ (Fetches /\ Unsupported(FetchedWord)) =>
          /\ stage' = "done"
          /\ runResult' = <<[exitCode |-> -1, instructionsExecuted |-> steps]>>
          /\ steps' = steps
     /\ Returned => sim' = sim]_vars

\* run has returned the fault outcome for a syscall with $v0 = 6 that
\* followed one completed instruction
C18_Witness ==
  /\ Returned
  /\ runResult = <<[exitCode |-> -1, instructionsExecuted |-> 1]>>
  /\ sim.pc = TEXT_START + 4
  /\ readWord(sim.mem, TEXT_START + 4) = RWord(0, 0, 0, 0, 12)
  /\ sim.registers[2] = 6
  /\ sim.error = <<"Unsupported syscall: ", 6>>
-----------------------------------------------------------------------------
(* Validator specification: one statement, in the CODE section or after a  *)
(* .data line.  The statement is a .byte, .half or .word directive with a  *)
(* literal at or next to a range boundary, or an instruction of any name   *)
(* the parser accepts with an operand list of any shape.                   *)

SectionPrefixes == {<<>>, <<".", "d", "a", "t", "a">> \o <<"\n">>}

DatumDirectives == {<<".", "b", "y", "t", "e">>, <<".", "h", "a", "l", "f">>, <<".", "w", "o", "r", "d">>}

\* literals of at most ten digits: the range boundaries and their neighbours,
\* signed, zero-padded and blank-separated spellings
DatumLiterals ==
  {<<"0">>, <<"-", "0">>, <<"+", "7">>, <<"0", "0", "7">>, <<"-", " ", "5">>, <<"-", "\t", "5">>, <<"+", " ", "7">>, <<"-", "1", "2", "9">>, <<"-", "1", "2", "8">>, <<"2", "5", "5">>, <<"2", "5", "6">>,
   <<"-", "3", "2", "7", "6", "9">>, <<"-", "3", "2", "7", "6", "8">>, <<"6", "5", "5", "3", "5">>, <<"6", "5", "5", "3", "6">>, <<"-", "2", "1", "4", "7", "4", "8", "3", "6", "4", "9">>, <<"-", "2", "1", "4", "7", "4", "8", "3", "6", "4", "8">>,
   <<"2", "1", "4", "7", "4", "8", "3", "6", "4", "7">>, <<"2", "1", "4", "7", "4", "8", "3", "6", "4", "8">>, <<"4", "2", "9", "4", "9", "6", "7", "2", "9", "5">>, <<"4", "2", "9", "4", "9", "6", "7", "2", "9", "6">>, <<"9", "9", "9", "9", "9", "9", "9", "9", "9", "9">>}

OpNames == {o.name : o \in ops}

ValidateOperandLists ==
  OperandLists \cup {<<>>, <<"e", "n", "d">>, <<"$", "t", "0", ",", " ", "e", "n", "d">>, <<"$", "t", "0", ",", " ", "$", "t", "1", ",", " ", "e", "n", "d">>, <<"$", "t", "0", ",", " ", "4", "0", "0", "0", "0">>, <<"$", "t", "0", ",", " ", "4", "0", "0", "0", "0", "(", "$", "t", "1", ")">>}

ValidateLines ==
  {d \o <<" ">> \o v : d \in DatumDirectives, v \in DatumLiterals}
    \cup {op \o <<" ">> \o operands : op \in OpNames, operands \in ValidateOperandLists}

InitValidate == \E prefix \in SectionPrefixes, line \in ValidateLines : Fresh(prefix \o line)

NextValidate == DoLex \/ DoParse \/ DoValidate

SpecValidate == InitValidate /\ [][NextValidate]_vars

Validated == stage = "validated" /\ ~validateThrew

HasPrefix(text, prefix) ==
  Len(text) >= Len(prefix) /\ SubSeq(text, 1, Len(prefix)) = prefix

\* the diagnostics of validate whose message starts with the given text
Reports(prefix) == {i \in DOMAIN validateErrors : HasPrefix(validateErrors[i].message, prefix)}

\* C19: table consistency between stages. For every instruction name the
\* parser accepts (every key of ops), validate never reports "Unknown
\* instruction <name>": on nodes produced by parse the validator's
\* unknown-instruction branch is not reached.
C19_NoUnknownInstruction ==
  (stage = "validated" /\ ~parseThrew) => Reports(<<"U", "n", "k", "n", "o", "w", "n", " ", "i", "n", "s", "t", "r", "u", "c", "t", "i", "o", "n", " ">>) = {}

\* the node list is a .data directive followed by one .byte, .half or .word
\* directive whose only argument is one NUMBER token
SingleDatum ==
  /\ Validated
  /\ Len(nodes) = 2
  /\ nodes[1].type = "DIRECTIVE"
  /\ OpName(source, nodes[1]) = <<".", "d", "a", "t", "a">>
  /\ nodes[1].args = <<>>
  /\ nodes[2].type = "DIRECTIVE"
  /\ OpName(source, nodes[2]) \in DatumDirectives
  /\ Len(nodes[2].args) = 1
  /\ Len(nodes[2].args[1].tokens) = 1
  /\ nodes[2].args[1].tokens[1].type = "NUMBER"

\* the value the lexer gave the literal of the directive
DatumValue == nodes[2].args[1].tokens[1].value

\* magnitude <= 10 * tens + units, for a magnitude of at most ten digits; the
\* bound is given in two parts because 4294967295 is beyond the integers of
\* the checker
MagnitudeAtMost(digits, tens, units) ==
  LET RECURSIVE val(_, _)
      val(ds, acc) == IF ds = <<>> THEN acc ELSE val(Tail(ds), acc * 10 + Head(ds))
      split(q, r) == q < tens \/ (q = tens /\ r <= units)
  IN digits = <<>> \/ split(val(SubSeq(digits, 1, Len(digits) - 1), 0), digits[Len(digits)])

\* -128 <= v <= 255 for .byte, -32768 <= v <= 65535 for .half and
\* -2147483648 <= v <= 4294967295 for .word
InDatumRange(name, v) ==
  CASE name = <<".", "b", "y", "t", "e">> ->
         IF v.neg THEN MagnitudeAtMost(v.digits, 12, 8) ELSE MagnitudeAtMost(v.digits, 25, 5)
    [] name = <<".", "h", "a", "l", "f">> ->
         IF v.neg THEN MagnitudeAtMost(v.digits, 3276, 8)
         ELSE MagnitudeAtMost(v.digits, 6553, 5)
    [] name = <<".", "w", "o", "r", "d">> ->
         IF v.neg THEN MagnitudeAtMost(v.digits, 214748364, 8)
         ELSE MagnitudeAtMost(v.digits, 429496729, 5)

InvalidValue(name) ==
  CASE name = <<".", "b", "y", "t", "e">> -> <<"I", "n", "v", "a", "l", "i", "d", " ", "b", "y", "t", "e", " ", "v", "a", "l", "u", "e">>
    [] name = <<".", "h", "a", "l", "f">> -> <<"I", "n", "v", "a", "l", "i", "d", " ", "h", "a", "l", "f", "w", "o", "r", "d", " ", "v", "a", "l", "u", "e">>
    [] name = <<".", "w", "o", "r", "d">> -> <<"I", "n", "v", "a", "l", "i", "d", " ", "w", "o", "r", "d", " ", "v", "a", "l", "u", "e">>

\* zero diagnostics for a literal in range, exactly one "Invalid ... value"
\* diagnostic for one out of range
DatumVerdict ==
  IF InDatumRange(OpName(source, nodes[2]), DatumValue)
  THEN validateErrors = <<>>
  ELSE /\ Len(validateErrors) = 1
       /\ Reports(InvalidValue(OpName(source, nodes[2]))) = {1}

\* C20: in the DATA section a single-argument .byte v with integer literal v
\* yields zero diagnostics iff -128 <= v <= 255 and exactly one "Invalid byte
\* value" diagnostic otherwise; likewise .half for [-32768, 65535] and .word
\* for [-2147483648, 4294967295].
C20_DatumRanges == SingleDatum => DatumVerdict

\* the literal is spelled without blanks between its sign and its digits
CompactLiteral ==
  \A k \in (nodes[2].args[1].tokens[1].start.offset + 1)..nodes[2].args[1].tokens[1].end.offset :
     source[k] \notin {" ", "\t"}

C20_Witness ==
  /\ SingleDatum
  /\ ~CompactLiteral
  /\ InDatumRange(OpName(source, nodes[2]), DatumValue)
  /\ Len(validateErrors) = 1
-----------------------------------------------------------------------------
(* Data directives with several arguments: .data, then one .byte, .half or *)
(* .word line with up to MaxDatumArgs literals, each in or out of range    *)

MaxDatumArgs == 3

ArgLiterals == {<<"7">>, <<"-", "1", "2", "9">>, <<"3", "0", "0">>, <<"7", "0", "0", "0", "0">>, <<"4", "2", "9", "4", "9", "6", "7", "2", "9", "6">>}

ArgLists == UNION {[1..n -> ArgLiterals] : n \in 1..MaxDatumArgs}

RECURSIVE CommaSeparated(_)
CommaSeparated(texts) ==
  IF Len(texts) = 1 THEN texts[1] ELSE texts[1] \o <<",", " ">> \o CommaSeparated(Tail(texts))

InitDatumArgs ==
  \E d \in DatumDirectives, vs \in ArgLists :
     Fresh(<<".", "d", "a", "t", "a">> \o <<"\n">> \o d \o <<" ">> \o CommaSeparated(vs))

NextDatumArgs == DoLex \/ DoParse \/ DoValidate

SpecDatumArgs == InitDatumArgs /\ [][NextDatumArgs]_vars

\* the node list is a .data directive followed by one .byte, .half or .word
\* directive with two or more arguments, each of them one NUMBER token
MultiDatum ==
  /\ Validated
  /\ Len(nodes) = 2
  /\ nodes[1].type = "DIRECTIVE"
  /\ OpName(source, nodes[1]) = <<".", "d", "a", "t", "a">>
  /\ nodes[2].type = "DIRECTIVE"
  /\ OpName(source, nodes[2]) \in DatumDirectives
  /\ Len(nodes[2].args) >= 2
  /\ \A i \in DOMAIN nodes[2].args :
        /\ Len(nodes[2].args[i].tokens) = 1
        /\ nodes[2].args[i].tokens[1].type = "NUMBER"

\* the positions of the arguments whose value is outside the directive's range
OutOfRangeArgs ==
  {i \in DOMAIN nodes[2].args :
     ~InDatumRange(OpName(source, nodes[2]), nodes[2].args[i].tokens[1].value)}

FirstOutOfRange == CHOOSE i \in OutOfRangeArgs : \A j \in OutOfRangeArgs : i <= j

\* C21: for a multi-argument .byte, .half or .word directive in the DATA
\* section with at least one argument out of range, validate reports exactly
\* one range diagnostic, and its span is the first out-of-range argument,
\* wherever in the list that argument stands.
C21_FirstOffendingArgument ==
  (MultiDatum /\ OutOfRangeArgs # {}) =>
     /\ Cardinality(Reports(InvalidValue(OpName(source, nodes[2])))) = 1
     /\ \A i \in Reports(InvalidValue(OpName(source, nodes[2]))) :
           /\ validateErrors[i].start = nodes[2].args[FirstOutOfRange].tokens[1].start
           /\ validateErrors[i].end = nodes[2].args[FirstOutOfRange].tokens[1].end

\* an out-of-range argument behind a first argument in range, and no diagnostic
C21_Witness ==
  /\ MultiDatum
  /\ OutOfRangeArgs # {}
  /\ 1 \notin OutOfRangeArgs
  /\ validateErrors = <<>>
-----------------------------------------------------------------------------
(* Instruction literals: one correctly shaped instruction in the CODE      *)
(* section whose last operand is a literal at or next to a range boundary  *)

ShiftNames == {<<"s", "l", "l">>, <<"s", "r", "l">>, <<"s", "r", "a">>}
ImmediateNames == {<<"a", "d", "d", "i">>, <<"a", "d", "d", "i", "u">>, <<"a", "n", "d", "i">>, <<"o", "r", "i">>, <<"x", "o", "r", "i">>, <<"s", "l", "t", "i">>, <<"s", "l", "t", "i", "u">>}
LoadStoreNames == {<<"l", "b">>, <<"l", "b", "u">>, <<"l", "h">>, <<"l", "h", "u">>, <<"l", "w">>, <<"s", "b">>, <<"s", "h">>, <<"s", "w">>}

\* literals of at most ten digits
ImmLiterals ==
  {<<"0">>, <<"-", "0">>, <<"-", "1">>, <<"-", " ", "1">>, <<"+", "7">>, <<"+", " ", "7">>, <<"0", "0", "7">>, <<"3", "1">>, <<"3", "2">>, <<"-", "3", "2", "7", "6", "9">>, <<"-", "3", "2", "7", "6", "8">>, <<"3", "2", "7", "6", "7">>,
   <<"3", "2", "7", "6", "8">>, <<"-", "2", "1", "4", "7", "4", "8", "3", "6", "4", "9">>, <<"-", "2", "1", "4", "7", "4", "8", "3", "6", "4", "8">>, <<"2", "1", "4", "7", "4", "8", "3", "6", "4", "7">>, <<"2", "1", "4", "7", "4", "8", "3", "6", "4", "8">>}

ImmLines ==
  {op \o <<" ", "$", "t", "0", ",", " ", "$", "t", "1", ",", " ">> \o n : op \in ShiftNames \cup ImmediateNames, n \in ImmLiterals}
    \cup {op \o <<" ", "$", "t", "0", ",", " ">> \o n \o <<"(", "$", "t", "1", ")">> : op \in LoadStoreNames, n \in ImmLiterals}
    \cup {<<"l", "i", " ", "$", "t", "0", ",", " ">> \o n : n \in ImmLiterals}

InitImmediates == \E line \in ImmLines : Fresh(line)

NextImmediates == DoLex \/ DoParse \/ DoValidate

SpecImmediates == InitImmediates /\ [][NextImmediates]_vars

\* the node list is one INSTRUCTION of the given names whose operands have
\* the given types
OneInstruction(names, types) ==
  /\ stage = "validated"
  /\ Len(nodes) = 1
  /\ nodes[1].type = "INSTRUCTION"
  /\ OpName(source, nodes[1]) \in names
  /\ ArgTypes(nodes[1].args) = types

\* low <= v <= high for the value v the lexer gave a literal, the bounds
\* given as magnitudes split into tens and units
ValueWithin(v, lowTens, lowUnits, highTens, highUnits) ==
  IF v.neg THEN MagnitudeAtMost(v.digits, lowTens, lowUnits)
  ELSE MagnitudeAtMost(v.digits, highTens, highUnits)

ShiftCase ==
  /\ OneInstruction(ShiftNames,
                    <<"INSTRUCTION_REGISTER", "INSTRUCTION_REGISTER", "INSTRUCTION_IMMEDIATE">>)
  /\ nodes[1].args[3].immediate.type = "NUMBER"

\* C22: for sll/srl/sra rd, rt, n in the CODE section with two register
\* operands and an integer literal n, validate reports zero diagnostics iff
\* 0 <= n <= 31 and otherwise exactly one "Shift amount must be in range
\* 0-31" diagnostic, without throwing.
C22_ShiftAmount ==
  ShiftCase =>
     /\ ~validateThrew
     /\ IF ValueWithin(nodes[1].args[3].immediate.value, 0, 0, 3, 1)
        THEN validateErrors = <<>>
        ELSE /\ Len(validateErrors) = 1
             /\ Reports(<<"S", "h", "i", "f", "t", " ", "a", "m", "o", "u", "n", "t", " ", "m", "u", "s", "t", " ", "b", "e", " ", "i", "n", " ", "r", "a", "n", "g", "e", " ", "0", "-", "3", "1">>) = {1}

\* a shift amount in range, spelled with a blank after its sign, and reported
C22_Witness ==
  /\ ShiftCase
  /\ ValueWithin(nodes[1].args[3].immediate.value, 0, 0, 3, 1)
  /\ Reports(<<"S", "h", "i", "f", "t", " ", "a", "m", "o", "u", "n", "t", " ", "m", "u", "s", "t", " ", "b", "e", " ", "i", "n", " ", "r", "a", "n", "g", "e", " ", "0", "-", "3", "1">>) = {1}

ITypeCase ==
  /\ OneInstruction(ImmediateNames,
                    <<"INSTRUCTION_REGISTER", "INSTRUCTION_REGISTER", "INSTRUCTION_IMMEDIATE">>)
  /\ nodes[1].args[3].immediate.type = "NUMBER"

LoadStoreCase ==
  /\ OneInstruction(LoadStoreNames, <<"INSTRUCTION_REGISTER", "INSTRUCTION_DISPLACEMENT">>)
  /\ nodes[1].args[2].disp.type = "NUMBER"

LiCase ==
  /\ OneInstruction({<<"l", "i">>}, <<"INSTRUCTION_REGISTER", "INSTRUCTION_IMMEDIATE">>)
  /\ nodes[1].args[2].immediate.type = "NUMBER"

\* the diagnostics that report a literal out of its range
RangeReports ==
  Reports(<<"I", "m", "m", "e", "d", "i", "a", "t", "e", " ", "v", "a", "l", "u", "e", " ", "m", "u", "s", "t", " ", "b", "e", " ", "a", " ", "1", "6", "-", "b", "i", "t", " ", "s", "i", "g", "n", "e", "d", " ", "i", "n", "t", "e", "g", "e", "r">>)
    \cup Reports(<<"D", "i", "s", "p", "l", "a", "c", "e", "m", "e", "n", "t", " ", "m", "u", "s", "t", " ", "b", "e", " ", "a", " ", "1", "6", "-", "b", "i", "t", " ", "s", "i", "g", "n", "e", "d", " ", "i", "n", "t", "e", "g", "e", "r">>)
    \cup Reports(<<"I", "m", "m", "e", "d", "i", "a", "t", "e", " ", "v", "a", "l", "u", "e", " ", "m", "u", "s", "t", " ", "b", "e", " ", "a", " ", "3", "2", "-", "b", "i", "t", " ", "s", "i", "g", "n", "e", "d", " ", "i", "n", "t", "e", "g", "e", "r">>)

\* C23: for a correctly shaped instruction in the CODE section, validate
\* reports a range diagnostic iff the literal is outside its class's range:
\* [-32768, 32767] for the immediate of addi/addiu/andi/ori/xori/slti/sltiu
\* and the displacement of lb/lbu/lh/lhu/lw/sb/sh/sw, [-2147483648,
\* 2147483647] for the immediate of li.
C23_ImmediateRanges ==
  /\ ITypeCase =>
       (RangeReports # {} <=> ~ValueWithin(nodes[1].args[3].immediate.value, 3276, 8, 3276, 7))
  /\ LoadStoreCase =>
       (RangeReports # {} <=> ~ValueWithin(nodes[1].args[2].disp.value, 3276, 8, 3276, 7))
  /\ LiCase =>
       (RangeReports # {} <=>
          ~ValueWithin(nodes[1].args[2].immediate.value, 214748364, 8, 214748364, 7))

\* an immediate in range, spelled with a blank after its sign, and reported
C23_Witness ==
  /\ ITypeCase
  /\ ValueWithin(nodes[1].args[3].immediate.value, 3276, 8, 3276, 7)
  /\ RangeReports # {}

-----------------------------------------------------------------------------
(* Sections: programs of up to MaxSectionLines lines, each a section       *)
(* switch, a directive with or without arguments, or an instruction        *)

MaxSectionLines == 3

SectionLines ==
  {<<".", "d", "a", "t", "a">>, <<".", "t", "e", "x", "t">>, <<".", "c", "o", "d", "e">>, <<".", "k", "d", "a", "t", "a">>, <<".", "b", "y", "t", "e", " ", "1">>, <<".", "h", "a", "l", "f", " ", "1">>, <<".", "w", "o", "r", "d", " ", "1">>, <<".", "a", "s", "c", "i", "i", " ", "\"", "a", "\"">>,
   <<".", "a", "s", "c", "i", "i", "z", " ", "\"", "a", "\"">>, <<".", "f", "l", "o", "a", "t", " ", "1">>, <<".", "d", "o", "u", "b", "l", "e", " ", "1">>, <<".", "a", "l", "i", "g", "n", " ", "2">>, <<".", "a", "l", "i", "g", "n">>, <<".", "s", "p", "a", "c", "e", " ", "4">>, <<".", "g", "l", "o", "b", "l", " ", "x">>,
   <<"n", "o", "p">>, <<"a", "d", "d", " ", "$", "t", "0", ",", " ", "$", "t", "1", ",", " ", "$", "t", "2">>}

SectionPrograms == UNION {[1..n -> SectionLines] : n \in 1..MaxSectionLines}

RECURSIVE LinesOf(_)
LinesOf(lines) ==
  IF Len(lines) = 1 THEN lines[1] ELSE lines[1] \o <<"\n">> \o LinesOf(Tail(lines))

InitSections == \E program \in SectionPrograms : Fresh(LinesOf(program))

NextSections == DoLex \/ DoParse \/ DoValidate

SpecSections == InitSections /\ [][NextSections]_vars

DataEmission == {<<".", "b", "y", "t", "e">>, <<".", "h", "a", "l", "f">>, <<".", "w", "o", "r", "d">>, <<".", "a", "s", "c", "i", "i">>, <<".", "a", "s", "c", "i", "i", "z">>, <<".", "f", "l", "o", "a", "t">>, <<".", "d", "o", "u", "b", "l", "e">>}

\* the section in effect when node i is met: the one the last .data, .text or
\* .code directive before it named, CODE when there is none
RECURSIVE SectionAt(_)
SectionAt(i) ==
  IF i = 1 THEN "CODE"
  ELSE IF nodes[i - 1].type = "DIRECTIVE" /\ OpName(source, nodes[i - 1]) = <<".", "d", "a", "t", "a">> THEN "DATA"
  ELSE IF nodes[i - 1].type = "DIRECTIVE" /\ OpName(source, nodes[i - 1]) \in {<<".", "t", "e", "x", "t">>, <<".", "c", "o", "d", "e">>}
  THEN "CODE"
  ELSE SectionAt(i - 1)

\* the diagnostics with the given message on the span of node i
ReportsOn(i, message) ==
  {k \in DOMAIN validateErrors :
     /\ validateErrors[k].message = message
     /\ validateErrors[k].start = nodes[i].start
     /\ validateErrors[k].end = nodes[i].end}

Misplaced(name) == <<"D", "a", "t", "a", " ", "d", "i", "r", "e", "c", "t", "i", "v", "e", " ">> \o name \o <<" ", "u", "s", "e", "d", " ", "i", "n", " ", "c", "o", "d", "e", " ", "s", "e", "c", "t", "i", "o", "n">>

\* C24: the validator's section is CODE initially and changes only at .data
\* (to DATA) and .text/.code (to CODE); "Instruction used outside of code
\* section" is reported for exactly the INSTRUCTION nodes met while the
\* section is DATA, and "Data directive <name> used in code section" for
\* exactly the data-emission directives met while the section is CODE, and
\* for no other directive.
C24_SectionPlacement ==
  Validated =>
     /\ \A i \in DOMAIN nodes :
           Cardinality(ReportsOn(i, <<"I", "n", "s", "t", "r", "u", "c", "t", "i", "o", "n", " ", "u", "s", "e", "d", " ", "o", "u", "t", "s", "i", "d", "e", " ", "o", "f", " ", "c", "o", "d", "e", " ", "s", "e", "c", "t", "i", "o", "n">>)) =
             IF nodes[i].type = "INSTRUCTION" /\ SectionAt(i) = "DATA" THEN 1 ELSE 0
     /\ \A i \in DOMAIN nodes :
           nodes[i].type = "DIRECTIVE" =>
             Cardinality(ReportsOn(i, Misplaced(OpName(source, nodes[i])))) =
               IF OpName(source, nodes[i]) \in DataEmission /\ SectionAt(i) = "CODE"
               THEN 1 ELSE 0
     /\ Cardinality(Reports(<<"I", "n", "s", "t", "r", "u", "c", "t", "i", "o", "n", " ", "u", "s", "e", "d", " ", "o", "u", "t", "s", "i", "d", "e", " ", "o", "f", " ", "c", "o", "d", "e", " ", "s", "e", "c", "t", "i", "o", "n">>)) =
          Cardinality({i \in DOMAIN nodes :
                         nodes[i].type = "INSTRUCTION" /\ SectionAt(i) = "DATA"})
     /\ Cardinality(Reports(<<"D", "a", "t", "a", " ", "d", "i", "r", "e", "c", "t", "i", "v", "e", " ">>)) =
          Cardinality({i \in DOMAIN nodes :
                         /\ nodes[i].type = "DIRECTIVE"
                         /\ OpName(source, nodes[i]) \in DataEmission
                         /\ SectionAt(i) = "CODE"})

\* an .align directive met in the CODE section and reported as misplaced
C24_Witness ==
  /\ Validated
  /\ \E i \in DOMAIN nodes :
        /\ nodes[i].type = "DIRECTIVE"
        /\ OpName(source, nodes[i]) = <<".", "a", "l", "i", "g", "n">>
        /\ SectionAt(i) = "CODE"
        /\ ReportsOn(i, Misplaced(<<".", "a", "l", "i", "g", "n">>)) # {}

\* C25: for every node list produced by parse, validate returns its
\* diagnostics without throwing, also for directives given no arguments at
\* all, such as .align alone on its line in the DATA section.
C25_ValidateNeverThrows == (stage = "validated" /\ ~parseThrew) => ~validateThrew

\* validate has thrown on an .align without arguments met in the DATA section
C25_Witness ==
  /\ stage = "validated"
  /\ validateThrew
  /\ \E i \in DOMAIN nodes :
        /\ nodes[i].type = "DIRECTIVE"
        /\ OpName(source, nodes[i]) = <<".", "a", "l", "i", "g", "n">>
        /\ nodes[i].args = <<>>
        /\ SectionAt(i) = "DATA"
-----------------------------------------------------------------------------
(* Strings and comments: every source text over LineAlphabet up to         *)
(* MaxLineLen characters                                                   *)

MaxLineLen == 5

LineAlphabet == {"\"", "'", "\\", "a", "#", "\r", "\n", " "}

LineSources == UNION {[1..n -> LineAlphabet] : n \in 0..MaxLineLen}

InitLines == \E src \in LineSources : Fresh(src)

NextLines == DoLex

SpecLines == InitLines /\ [][NextLines]_vars

\* the index of the unescaped delimiter that closes the string opened before
\* index p, or 0 when the input ends first: a backslash escapes the character
\* after it
RECURSIVE ClosingDelimiter(_, _, _)
ClosingDelimiter(src, p, delimiter) ==
  IF p > Len(src) THEN 0
  ELSE IF src[p] = delimiter THEN p
  ELSE IF src[p] = "\\" THEN ClosingDelimiter(src, p + 2, delimiter)
  ELSE ClosingDelimiter(src, p + 1, delimiter)

\* the tokens that start at a quote: lex reaches its string case for them
StringTokens == {k \in DOMAIN tokens : TokenText(source, tokens[k]) # <<>>
                                         /\ Head(TokenText(source, tokens[k])) \in {"\"", "'"}}

Unclosed(k) ==
  ClosingDelimiter(source, tokens[k].start.offset + 2, source[tokens[k].start.offset + 1]) = 0

\* the "Unclosed string" diagnostics with the span of token k
UnclosedReports(k) ==
  {e \in DOMAIN lexErrors :
     /\ lexErrors[e].message = "Unclosed string"
     /\ lexErrors[e].start = tokens[k].start
     /\ lexErrors[e].end = tokens[k].end}

\* C26: for every string opened by a quote with no matching unescaped closing
\* delimiter before the end of input (a lone quote at end of input and a
\* string whose last character is an escaped delimiter included), lex emits
\* one INVALID token without a value and exactly one "Unclosed string"
\* diagnostic with the same span; a STRING token is emitted only when the
\* closing delimiter was consumed.
C26_UnclosedStrings ==
  Lexed =>
    \A k \in StringTokens :
       IF Unclosed(k)
       THEN /\ tokens[k].type = "INVALID"
            /\ tokens[k].value = NoValue
            /\ Cardinality(UnclosedReports(k)) = 1
       ELSE /\ tokens[k].type = "STRING"
            /\ tokens[k].end.offset =
                 ClosingDelimiter(source, tokens[k].start.offset + 2,
                                  source[tokens[k].start.offset + 1])
            /\ UnclosedReports(k) = {}

\* a STRING token for a string that was never closed
C26_Witness ==
  /\ Lexed
  /\ \E k \in StringTokens : Unclosed(k) /\ tokens[k].type = "STRING"

CommentTokens == {k \in DOMAIN tokens : tokens[k].type = "COMMENT"}

\* the length of the line terminator at index p of the source: 2 for \r\n,
\* 1 for \n, 0 when no terminator starts there
TerminatorAt(p) ==
  IF p <= Len(source) /\ source[p] = "\n" THEN 1
  ELSE IF p + 1 <= Len(source) /\ source[p] = "\r" /\ source[p + 1] = "\n" THEN 2
  ELSE 0

\* C27: a COMMENT token spans from its # up to but not including the line
\* terminator, for both terminators the lexer recognizes (\n and \r\n): its
\* span contains no \r or \n of the terminating newline, and the terminator
\* is emitted as one separate NEWLINE token.
C27_CommentSpan ==
  Lexed =>
    \A k \in CommentTokens :
       /\ source[tokens[k].start.offset + 1] = "#"
       /\ \A p \in (tokens[k].start.offset + 1)..tokens[k].end.offset : TerminatorAt(p) = 0
       /\ \/ tokens[k].end.offset = Len(source)
          \/ /\ TerminatorAt(tokens[k].end.offset + 1) > 0
             /\ tokens[k + 1].type = "NEWLINE"
             /\ tokens[k + 1].end.offset =
                  tokens[k].end.offset + TerminatorAt(tokens[k].end.offset + 1)

\* a COMMENT token that ends with the \r of a \r\n terminator
C27_Witness ==
  /\ Lexed
  /\ \E k \in CommentTokens :
        /\ tokens[k].end.offset < Len(source)
        /\ source[tokens[k].end.offset] = "\r"
        /\ source[tokens[k].end.offset + 1] = "\n"
-----------------------------------------------------------------------------
(* Forward and backward references: a code block of up to MaxPad           *)
(* instructions and a branch or jump, and a data block of up to            *)
(* MaxDataWords words and the label L, in either order                     *)

MaxPad == 2
MaxDataWords == 1

RECURSIVE Repeated(_, _)
Repeated(line, n) == IF n = 0 THEN <<>> ELSE line \o <<"\n">> \o Repeated(line, n - 1)

DataBlock(m) == <<".", "d", "a", "t", "a">> \o <<"\n">> \o Repeated(<<".", "w", "o", "r", "d", " ", "1">>, m) \o <<"L", ":">> \o <<"\n">> \o <<".", "w", "o", "r", "d", " ", "2">>

CodeBlock(k, line) == <<".", "t", "e", "x", "t">> \o <<"\n">> \o Repeated(<<"s", "u", "b", " ", "$", "t", "0", ",", " ", "$", "t", "0", ",", " ", "$", "t", "0">>, k) \o line

\* the label is defined after the instruction that names it
Forward(k, m, line) == CodeBlock(k, line) \o <<"\n">> \o DataBlock(m)

\* the label is defined before the instruction that names it
Backward(k, m, line) == DataBlock(m) \o <<"\n">> \o CodeBlock(k, line)

ReferenceLines == BranchLines \cup JumpLines

InitReferences ==
  \E k \in 0..MaxPad, m \in 0..MaxDataWords, line \in ReferenceLines :
     Fresh(Forward(k, m, line)) \/ Fresh(Backward(k, m, line))

NextReferences == DoLex \/ DoParse \/ DoGenerate

SpecReferences == InitReferences /\ [][NextReferences]_vars

\* generate applied to another source text
Assembled(src) == generate(src, lex(src).result, parse(src, lex(src).result).result)

\* the outcome of this program and of the program with the blocks in the
\* other order: the same label table, the same failure if any, and the same
\* word at the address of the referencing instruction
SameAssembly(k, m, other) ==
  /\ genError = other.error
  /\ labelToAddress = other.labels
  /\ genError = NoError =>
       /\ labelToAddress[<<"L">>] = DATA_START + 4 * m
       /\ (TEXT_START + 4 * k) \in DOMAIN code
       /\ (TEXT_START + 4 * k) \in DOMAIN other.mem
       /\ code[TEXT_START + 4 * k] = other.mem[TEXT_START + 4 * k]

\* C28: the label table is completely built by pass 1 before pass 2 emits any
\* word and is not modified during pass 2, so two programs that differ only
\* in whether the label a branch or jump names is defined before or after it,
\* with all addresses otherwise identical, assemble to identical words for
\* that instruction.
C28_ForwardReferences ==
  Generated =>
    /\ genError = NoError => labelToAddress = mapLabelToAdress(source, tokens, nodes).labels
    /\ \A k \in 0..MaxPad, m \in 0..MaxDataWords, line \in ReferenceLines :
          /\ source = Forward(k, m, line) => SameAssembly(k, m, Assembled(Backward(k, m, line)))
          /\ source = Backward(k, m, line) => SameAssembly(k, m, Assembled(Forward(k, m, line)))

\* a forward reference was assembled: the label L is in the table, at its
\* data address, and the word of the branch or jump is in the image
C28_Witness ==
  /\ Generated
  /\ genError = NoError
  /\ \E line \in ReferenceLines : source = Forward(MaxPad, MaxDataWords, line)
  /\ labelToAddress[<<"L">>] = DATA_START + 4 * MaxDataWords
  /\ (TEXT_START + 4 * MaxPad) \in DOMAIN code
-----------------------------------------------------------------------------
(* Directives the generator has no case for: one directive line, with or   *)
(* without an argument, between a context before it and labels, data and   *)
(* an instruction after it                                                 *)

HandledDirectives ==
  {<<".", "d", "a", "t", "a">>, <<".", "t", "e", "x", "t">>, <<".", "c", "o", "d", "e">>, <<".", "a", "l", "i", "g", "n">>, <<".", "a", "s", "c", "i", "i">>, <<".", "a", "s", "c", "i", "i", "z">>, <<".", "b", "y", "t", "e">>, <<".", "h", "a", "l", "f">>, <<".", "w", "o", "r", "d">>, <<".", "f", "l", "o", "a", "t">>,
   <<".", "d", "o", "u", "b", "l", "e">>, <<".", "s", "e", "c", "t", "i", "o", "n">>}

OtherDirectives == directives \ HandledDirectives

DirectiveArguments == {<<>>, <<" ", "4">>, <<" ", "x">>}

ContextsBefore ==
  {<<>>,
   <<".", "d", "a", "t", "a">> \o <<"\n">>,
   <<".", "t", "e", "x", "t">> \o <<"\n">>,
   <<".", "d", "a", "t", "a">> \o <<"\n">> \o <<".", "b", "y", "t", "e", " ", "1">> \o <<"\n">>,
   <<"s", "u", "b", " ", "$", "t", "0", ",", " ", "$", "t", "0", ",", " ", "$", "t", "0">> \o <<"\n">>}

ContextsAfter ==
  {<<"L", ":">> \o <<"\n">> \o <<".", "b", "y", "t", "e", " ", "7">> \o <<"\n">> \o <<"M", ":">> \o <<"\n">> \o <<"s", "u", "b", " ", "$", "t", "0", ",", " ", "$", "t", "0", ",", " ", "$", "t", "0">>,
   <<"s", "u", "b", " ", "$", "t", "0", ",", " ", "$", "t", "0", ",", " ", "$", "t", "0">> \o <<"\n">> \o <<"L", ":">>,
   <<".", "h", "a", "l", "f", " ", "3">> \o <<"\n">> \o <<"L", ":">>}

\* the program with the directive line, and the program without it
WithDirective(before, name, argument, after) == before \o name \o argument \o <<"\n">> \o after
WithoutDirective(before, after) == before \o after

InitDirectives ==
  \E before \in ContextsBefore, name \in OtherDirectives \cup {<<".", "s", "e", "c", "t", "i", "o", "n">>},
     argument \in DirectiveArguments, after \in ContextsAfter :
     Fresh(WithDirective(before, name, argument, after))

NextDirectives == DoLex \/ DoParse \/ DoGenerate

SpecDirectives == InitDirectives /\ [][NextDirectives]_vars

\* pass 1 applied to another source text
Mapped(src) == mapLabelToAdress(src, lex(src).result, parse(src, lex(src).result).result)

\* both passes end as they end on the program without the directive line:
\* pass 1 with the same section, running addresses and label table, pass 2
\* with the same failure if any and the same memory image
SameOutcome(without) ==
  LET same(pass1, pass2) ==
        /\ mapLabelToAdress(source, tokens, nodes) = pass1
        /\ genError = pass2.error
        /\ labelToAddress = pass2.labels
        /\ genError = NoError => code = pass2.mem
        /\ Len(emitted) = Len(pass2.emitted)
        /\ \A k \in DOMAIN emitted : emitted[k].address = pass2.emitted[k].address
  IN same(Mapped(without), Assembled(without))

-----------------------------------------------------------------------------
(* .data followed by one .byte directive of 1 to MaxBytes arguments, each  *)
(* within -128..255                                                        *)

MaxBytes == 5

\* a literal and the number it writes
ByteLiterals ==
  {[text |-> <<"-", "1", "2", "8">>, value |-> -128], [text |-> <<"-", "1">>, value |-> -1], [text |-> <<"0">>, value |-> 0],
   [text |-> <<"4", "2">>, value |-> 42], [text |-> <<"2", "5", "5">>, value |-> 255]}

ByteLists == UNION {[1..k -> ByteLiterals] : k \in 1..MaxBytes}

ByteProgram(vs) ==
  <<".", "d", "a", "t", "a">> \o <<"\n">> \o <<".", "b", "y", "t", "e", " ">> \o CommaSeparated([i \in DOMAIN vs |-> vs[i].text])

InitBytes == \E vs \in ByteLists : Fresh(ByteProgram(vs))

NextBytes == DoLex \/ DoParse \/ DoGenerate

SpecBytes == InitBytes /\ [][NextBytes]_vars

\* v mod 256 for v in -128..255
Mod256(v) == IF v < 0 THEN v + 256 ELSE v

\* the byte addresses of every word the image holds and of the words the
\* MaxBytes + 1 first data bytes lie in
ImageBytes ==
  {a + j : a \in DOMAIN code \cup {DATA_START + 4 * w : w \in 0..(MaxBytes \div 4)}, j \in 0..3}

\* the literals written after ".byte ", read off the source text
RECURSIVE Written(_, _)
Written(rest, read) ==
  IF rest = <<>> THEN read
  ELSE LET Leads(l) == /\ Len(l.text) <= Len(rest)
                       /\ SubSeq(rest, 1, Len(l.text)) = l.text
                       /\ Len(l.text) < Len(rest) => rest[Len(l.text) + 1] = ","
           next(l) == Written(SubSeq(rest, Len(l.text) + 3, Len(rest)), Append(read, l))
       IN next(CHOOSE l \in ByteLiterals : Leads(l))

BytesWritten == Written(SubSeq(source, Len(<<".", "d", "a", "t", "a">>) + Len(<<".", "b", "y", "t", "e", " ">>) + 2, Len(source)), <<>>)

\* C30: for .data followed by .byte v1, ..., vk with every vi in [-128, 255],
\* after generate the bytes read at the data base address, base+1, ...,
\* base+k-1 are vi mod 256 in order (42, 255, -128 give 42, 255, 128), and
\* every other byte of the image still reads 0.
C30_ByteImage ==
  LET image(vs) ==
        /\ vs \in ByteLists
        /\ source = ByteProgram(vs)
        /\ genError = NoError
        /\ \A i \in 1..Len(vs) : readByte(code, DATA_START + i - 1) = Mod256(vs[i].value)
        /\ \A a \in ImageBytes :
              a \notin DATA_START..(DATA_START + Len(vs) - 1) => readByte(code, a) = 0
  IN Generated => image(BytesWritten)

\* .byte 42, 255, -128 was assembled: the three bytes read 42, 255, 128 and
\* the fourth byte of the word reads 0
C30_Witness ==
  /\ Generated
  /\ genError = NoError
  /\ source = <<".", "d", "a", "t", "a">> \o <<"\n">> \o <<".", "b", "y", "t", "e", " ", "4", "2", ",", " ", "2", "5", "5", ",", " ", "-", "1", "2", "8">>
  /\ readByte(code, DATA_START) = 42
  /\ readByte(code, DATA_START + 1) = 255
  /\ readByte(code, DATA_START + 2) = 128
  /\ readByte(code, DATA_START + 3) = 0
-----------------------------------------------------------------------------
(* Section tracking of the validator and of both passes of the generator   *)
(* on programs of 1 to MaxTrackLines lines                                 *)

MaxTrackLines == 3

TrackLines ==
  {<<".", "d", "a", "t", "a">>, <<".", "t", "e", "x", "t">>, <<".", "c", "o", "d", "e">>, <<".", "k", "d", "a", "t", "a">>, <<".", "k", "t", "e", "x", "t">>, <<".", "b", "y", "t", "e", " ", "1">>, <<".", "a", "l", "i", "g", "n", " ", "2">>, <<".", "s", "e", "c", "t", "i", "o", "n">>, <<"L", ":">>,
   <<"n", "o", "p">>}

TrackPrograms == UNION {[1..n -> TrackLines] : n \in 1..MaxTrackLines}

InitTracking == \E program \in TrackPrograms : Fresh(LinesOf(program))

NextTracking == DoLex \/ DoParse \/ DoValidate \/ DoGenerate

SpecTracking == InitTracking /\ [][NextTracking]_vars

\* the first i nodes
NodesBefore(i) == SubSeq(nodes, 1, i - 1)

\* the section a stage holds when it meets node i (after the last node when
\* i = Len(nodes) + 1), or "NONE" when it threw before reaching it
ValidatorSection(i) ==
  LET held(v) == IF v.threw THEN "NONE" ELSE v.section
  IN held(validate(source, tokens, NodesBefore(i)))

Pass1Section(i) ==
  LET held(p) == IF p.error # NoError THEN "NONE" ELSE p.section
  IN held(mapLabelToAdress(source, tokens, NodesBefore(i)))

Pass2Section(i) ==
  LET held(g) == IF g.error # NoError THEN "NONE" ELSE g.section
  IN held(generate(source, tokens, NodesBefore(i)))

\* C31: section tracking agrees across stages: walking the same node list,
\* the validator, pass 1 of the code generator and pass 2 of the code
\* generator hold the same current section (CODE or DATA) at every node; all
\* three start in CODE and change section only at .data, .text and .code.
C31_SectionsAgree ==
  stage \in {"validated", "generated"} =>
    \A i \in 1..(Len(nodes) + 1) :
       /\ ValidatorSection(i) \in {"NONE", SectionAt(i)}
       /\ Pass1Section(i) \in {"NONE", SectionAt(i)}
       /\ Pass2Section(i) \in {"NONE", SectionAt(i)}

\* all three stages walked a program that enters DATA and returns to CODE
\* with .code, and hold DATA at its second line and CODE after its last
C31_Witness ==
  /\ stage = "generated"
  /\ genError = NoError
  /\ source = LinesOf(<<<<".", "d", "a", "t", "a">>, <<".", "b", "y", "t", "e", " ", "1">>, <<".", "c", "o", "d", "e">>>>)
  /\ ValidatorSection(2) = "DATA" /\ Pass1Section(2) = "DATA" /\ Pass2Section(2) = "DATA"
  /\ ValidatorSection(Len(nodes) + 1) = "CODE"
  /\ Pass1Section(Len(nodes) + 1) = "CODE"
  /\ Pass2Section(Len(nodes) + 1) = "CODE"
-----------------------------------------------------------------------------
(* Address accounting of pass 1 on programs of 1 to MaxAccountLines lines  *)

MaxAccountLines == 3

AccountLines ==
  {<<".", "d", "a", "t", "a">>, <<".", "t", "e", "x", "t">>, <<".", "b", "y", "t", "e", " ", "1", ",", " ", "2">>, <<".", "h", "a", "l", "f", " ", "1">>, <<".", "w", "o", "r", "d", " ", "1", ",", " ", "2", ",", " ", "3">>, <<".", "f", "l", "o", "a", "t", " ", "1">>, <<".", "d", "o", "u", "b", "l", "e", " ", "1">>,
   <<".", "a", "s", "c", "i", "i", " ", "\"", "a", "b", "\"", ",", " ", "\"", "c", "\"">>, <<".", "a", "s", "c", "i", "i", "z", " ", "\"", "a", "b", "\"">>, <<".", "a", "l", "i", "g", "n", " ", "3">>, <<".", "a", "l", "i", "g", "n", " ", "1", "6">>, <<"L", ":">>, <<"l", "i", " ", "$", "t", "0", ",", " ", "7", "0", "0", "0", "0">>, <<"n", "o", "p">>}

AccountPrograms == UNION {[1..n -> AccountLines] : n \in 1..MaxAccountLines}

InitAccount == \E program \in AccountPrograms : Fresh(LinesOf(program))

NextAccount == DoLex \/ DoParse \/ DoGenerate

SpecAccount == InitAccount /\ [][NextAccount]_vars

\* pass 1 after the first i nodes
Pass1After(i) == mapLabelToAdress(source, tokens, SubSeq(nodes, 1, i))

\* the bytes one argument of a data directive takes
DatumSize(name) ==
  IF name = <<".", "b", "y", "t", "e">> THEN 1
  ELSE IF name = <<".", "h", "a", "l", "f">> THEN 2
  ELSE IF name \in {<<".", "w", "o", "r", "d">>, <<".", "f", "l", "o", "a", "t">>} THEN 4
  ELSE 8

\* the characters between the quotes of the string arguments, and extra for
\* each of them
RECURSIVE StringBytes(_, _)
StringBytes(args, extra) ==
  IF args = <<>> THEN 0
  ELSE (args[1].tokens[1].end.offset - args[1].tokens[1].start.offset - 2) + extra
         + StringBytes(Tail(args), extra)

\* r is a rounded up to the next multiple of 2^n
RoundedUp(r, a, n) == r % (2^n) = 0 /\ r >= a /\ r - a < 2^n

\* the number a run of decimal digits spells
RECURSIVE Decimal(_)
Decimal(text) ==
  IF text = <<>> THEN 0
  ELSE 10 * Decimal(SubSeq(text, 1, Len(text) - 1)) + DigitValue(text[Len(text)])

\* the number an .align directive names
AlignArgument(node) ==
  Decimal(slice(source, node.args[1].start.offset, node.args[1].end.offset))

\* what node i does to the addresses and the label table of pass 1
Accounts(i, before, after) ==
  LET name == OpName(source, nodes[i])
      dataStep(n) == after.data = before.data + n /\ after.code = before.code
  IN /\ after.error = NoError
     /\ ~after.dataNaN
     /\ IF nodes[i].type = "INSTRUCTION"
        THEN after.code = before.code + 4 /\ after.data = before.data
        ELSE IF nodes[i].type = "LABEL"
        THEN /\ dataStep(0)
             /\ after.labels[slice(source, nodes[i].start.offset, nodes[i].end.offset - 1)]
                  = IF SectionAt(i) = "CODE" THEN before.code ELSE before.data
        ELSE IF name \in {<<".", "b", "y", "t", "e">>, <<".", "h", "a", "l", "f">>, <<".", "w", "o", "r", "d">>, <<".", "f", "l", "o", "a", "t">>, <<".", "d", "o", "u", "b", "l", "e">>}
        THEN dataStep(DatumSize(name) * Len(nodes[i].args))
        ELSE IF name = <<".", "a", "s", "c", "i", "i">> THEN dataStep(StringBytes(nodes[i].args, 0))
        ELSE IF name = <<".", "a", "s", "c", "i", "i", "z">> THEN dataStep(StringBytes(nodes[i].args, 1))
        ELSE IF name = <<".", "a", "l", "i", "g", "n">>
        THEN IF SectionAt(i) = "CODE"
             THEN /\ RoundedUp(after.code, before.code, AlignArgument(nodes[i]))
                  /\ after.data = before.data
             ELSE /\ RoundedUp(after.data, before.data, AlignArgument(nodes[i]))
                  /\ after.code = before.code
        ELSE dataStep(0)

\* C32: pass 1 address accounting: starting from the fixed code and data base
\* addresses, each INSTRUCTION node advances the code address by exactly 4;
\* .byte/.half/.word/.float/.double advance the data address by 1/2/4/4/8 per
\* argument, .ascii by the string length and .asciiz by the string length + 1;
\* .align n rounds the current section's address up to the next multiple of
\* 2^n; and each LABEL node is recorded with the running address of the
\* current section at that point (code address in CODE, data address in DATA).
C32_Pass1Accounting ==
  Generated =>
    /\ Pass1After(0).code = TEXT_START
    /\ Pass1After(0).data = DATA_START
    /\ \A i \in 1..Len(nodes) : Accounts(i, Pass1After(i - 1), Pass1After(i))
    /\ genError = NoError => labelToAddress = Pass1After(Len(nodes)).labels

\* pass 1 walked .data, two bytes and the label L: L is at the data base
\* address + 2, and .align 3 after them ends on the data base address + 8
C32_Witness ==
  /\ Generated
  /\ \/ /\ source = LinesOf(<<<<".", "d", "a", "t", "a">>, <<".", "b", "y", "t", "e", " ", "1", ",", " ", "2">>, <<"L", ":">>>>)
        /\ labelToAddress[<<"L">>] = DATA_START + 2
     \/ /\ source = LinesOf(<<<<".", "d", "a", "t", "a">>, <<".", "b", "y", "t", "e", " ", "1", ",", " ", "2">>, <<".", "a", "l", "i", "g", "n", " ", "3">>>>)
        /\ Pass1After(Len(nodes)).data = DATA_START + 8
-----------------------------------------------------------------------------
(* Emission addresses of pass 2 on programs of 1 to MaxEmitLines            *)
(* instructions, none of them a two-word li                                 *)

MaxEmitLines == 3

PseudoLines == {<<"n", "o", "p">>, <<"m", "o", "v", "e", " ", "$", "t", "0", ",", " ", "$", "t", "1">>, <<"l", "i", " ", "$", "t", "0", ",", " ", "5">>}

EmitLines == PseudoLines \cup {<<"a", "d", "d", " ", "$", "t", "0", ",", " ", "$", "t", "1", ",", " ", "$", "t", "2">>, <<"s", "u", "b", " ", "$", "t", "0", ",", " ", "$", "t", "0", ",", " ", "$", "t", "0">>, <<"a", "d", "d", "i", " ", "$", "t", "0", ",", " ", "$", "t", "1", ",", " ", "1">>}

EmitPrograms == UNION {[1..n -> EmitLines] : n \in 1..MaxEmitLines}

InitEmit == \E program \in EmitPrograms : Fresh(LinesOf(program))

NextEmit == DoLex \/ DoParse \/ DoGenerate

SpecEmit == InitEmit /\ [][NextEmit]_vars

\* the word generate emits for one line by itself
WordOf(line) == Assembled(line).mem[TEXT_START]

\* every instruction of the program was encoded at the address pass 1 gave
\* its node, and its word is still in the image at that address
EmittedInPlace(program) ==
  /\ genError = NoError
  /\ Len(emitted) = Len(program)
  /\ \A k \in DOMAIN emitted :
        /\ emitted[k].address = Pass1After(emitted[k].node - 1).code
        /\ emitted[k].address \in DOMAIN code
        /\ code[emitted[k].address] = WordOf(program[k])
  /\ Cardinality(DOMAIN code) = Len(program)

\* C33: in pass 2 every INSTRUCTION node, pseudo-instruction or not, is
\* emitted at its own address: after an instruction has been emitted the
\* running code address has advanced past every word written for it, so no
\* word written for one instruction is ever overwritten by a word of a later
\* instruction, and for programs without a two-word li the address at which
\* pass 2 emits the k-th instruction equals the address pass 1 assigned to it.
C33_EmittedAtOwnAddress ==
  Generated => \A program \in EmitPrograms : source = LinesOf(program) => EmittedInPlace(program)

\* three instructions, none a pseudo-instruction, were emitted at the code
\* base address, base + 4 and base + 8
C33_Witness ==
  /\ Generated
  /\ source = LinesOf(<<<<"a", "d", "d", " ", "$", "t", "0", ",", " ", "$", "t", "1", ",", " ", "$", "t", "2">>, <<"s", "u", "b", " ", "$", "t", "0", ",", " ", "$", "t", "0", ",", " ", "$", "t", "0">>, <<"a", "d", "d", "i", " ", "$", "t", "0", ",", " ", "$", "t", "1", ",", " ", "1">>>>)
  /\ EmittedInPlace(<<<<"a", "d", "d", " ", "$", "t", "0", ",", " ", "$", "t", "1", ",", " ", "$", "t", "2">>, <<"s", "u", "b", " ", "$", "t", "0", ",", " ", "$", "t", "0", ",", " ", "$", "t", "0">>, <<"a", "d", "d", "i", " ", "$", "t", "0", ",", " ", "$", "t", "1", ",", " ", "1">>>>)
  /\ emitted[3].address = TEXT_START + 8
-----------------------------------------------------------------------------
(* Data sections: .data followed by 1 to MaxDataLines data directives,     *)
(* validated and generated                                                 *)

MaxDataLines == 3

DataLines ==
  {<<".", "b", "y", "t", "e", " ", "1">>, <<".", "h", "a", "l", "f", " ", "1">>, <<".", "w", "o", "r", "d", " ", "1">>, <<".", "f", "l", "o", "a", "t", " ", "1">>, <<".", "d", "o", "u", "b", "l", "e", " ", "1">>, <<".", "a", "s", "c", "i", "i", " ", "\"", "a", "\"">>, <<".", "a", "l", "i", "g", "n", " ", "2">>}

DataPrograms == UNION {[1..n -> DataLines] : n \in 1..MaxDataLines}

InitData == \E program \in DataPrograms : Fresh(LinesOf(<<<<".", "d", "a", "t", "a">>>> \o program))

NextData == DoLex \/ DoParse \/ DoValidate \/ DoGenerate

SpecData == InitData /\ [][NextData]_vars

\* validate reports zero diagnostics on this program
CleanlyValidated ==
  LET clean(r) == ~r.threw /\ r.errors = <<>>
  IN clean(validate(source, tokens, nodes))

Misaligned ==
  {<<"Address must be half-word aligned", <<>>>>, <<"Address must be word aligned", <<>>>>}

\* C34: for every program on which validate reports zero diagnostics and that
\* uses only data directives in its DATA section, pass 2 stores every .half
\* at an even data address and every .word/.float/.double at a data address
\* that is a multiple of 4, so generate never fails with "Address must be
\* half-word aligned" or "Address must be word aligned" (for instance when a
\* .word follows a single .byte).
C34_DataStoresAligned ==
  (Generated /\ CleanlyValidated) => genError \notin Misaligned

\* a word, a half-word and a byte, each at a multiple of its size, were
\* stored without failure
C34_Witness ==
  /\ Generated
  /\ CleanlyValidated
  /\ source = LinesOf(<<<<".", "d", "a", "t", "a">>, <<".", "w", "o", "r", "d", " ", "1">>, <<".", "h", "a", "l", "f", " ", "1">>, <<".", "b", "y", "t", "e", " ", "1">>>>)
  /\ genError = NoError
  /\ readWord(code, DATA_START) = 1
  /\ readByte(code, DATA_START + 6) = 1
-----------------------------------------------------------------------------
(* li after an instruction that gave its register a value: the program     *)
(* addi rt, $zero, v / li rt, imm, assembled and run                       *)

MaxLoadBudget == 3

LoadRegisters == {[name |-> <<"$", "t", "0">>, number |-> 8], [name |-> <<"$", "s", "0">>, number |-> 16]}

\* the value the register holds before li
EarlierValues == {[text |-> <<"0">>, value |-> 0], [text |-> <<"8">>, value |-> 8], [text |-> <<"-", "1">>, value |-> -1]}

\* the immediates, of one-word and of two-word li
LoadLiterals ==
  {[text |-> <<"0">>, value |-> 0], [text |-> <<"5">>, value |-> 5], [text |-> <<"6", "5", "5", "3", "5">>, value |-> 65535],
   [text |-> <<"6", "5", "5", "3", "6">>, value |-> 65536], [text |-> <<"7", "0", "0", "0", "0">>, value |-> 70000],
   [text |-> <<"-", "1">>, value |-> -1], [text |-> <<"-", "3", "2", "7", "6", "8">>, value |-> -32768],
   [text |-> <<"2", "1", "4", "7", "4", "8", "3", "6", "4", "7">>, value |-> 2147483647],
   [text |-> <<"-", "2", "1", "4", "7", "4", "8", "3", "6", "4", "7">>, value |-> -2147483647]}

LoadProgram(rt, v, n) ==
  <<"a", "d", "d", "i", " ">> \o rt.name \o <<",", " ", "$", "z", "e", "r", "o", ",", " ">> \o v.text \o <<"\n">> \o <<"l", "i", " ">> \o rt.name \o <<",", " ">> \o n.text

InitLoad ==
  \E rt \in LoadRegisters, v \in EarlierValues, n \in LoadLiterals : Fresh(LoadProgram(rt, v, n))

NextLoad ==
  DoLex \/ DoParse \/ DoGenerate \/ NewSimulator(2..MaxLoadBudget) \/ RunStart \/ RunStep \/ RunReturn

SpecLoad == InitLoad /\ [][NextLoad]_vars

\* run has returned after executing every word of the image
RanThrough ==
  /\ stage = "done"
  /\ sim.error = NoError
  /\ steps >= Cardinality(DOMAIN code)

\* C35: li loads its immediate: executing, from any register state, the word
\* or words that generate emits for li rt, imm (rt not $zero, imm in
\* [-2147483648, 2147483647]) leaves register rt equal to imm as a signed
\* 32-bit value, independently of the value rt held before.
C35_LiLoadsImmediate ==
  RanThrough =>
    \A rt \in LoadRegisters, v \in EarlierValues, n \in LoadLiterals :
       source = LoadProgram(rt, v, n) => sim.registers[rt.number] = n.value

\* $t0 held 8, the two words of li $t0, 70000 were executed, and $t0 is 70000
C35_Witness ==
  /\ RanThrough
  /\ source = LinesOf(<<<<"a", "d", "d", "i", " ", "$", "t", "0", ",", " ", "$", "z", "e", "r", "o", ",", " ", "8">>, <<"l", "i", " ", "$", "t", "0", ",", " ", "7", "0", "0", "0", "0">>>>)
  /\ Cardinality(DOMAIN code) = 3
  /\ sim.registers[8] = 70000
-----------------------------------------------------------------------------
(* Numeric literals in the seven places the validator reads them: one      *)
(* statement holding one literal, lexed, parsed and validated              *)

\* a literal and the integer it spells
SignedLiterals ==
  {[text |-> <<"5">>, value |-> 5], [text |-> <<"-", "5">>, value |-> -5], [text |-> <<"+", "5">>, value |-> 5],
   [text |-> <<"-", " ", "5">>, value |-> -5], [text |-> <<"+", " ", "5">>, value |-> 5],
   [text |-> <<"-", "\t", "5">>, value |-> -5], [text |-> <<"0">>, value |-> 0],
   [text |-> <<"3", "1">>, value |-> 31], [text |-> <<"-", "1", "2", "8">>, value |-> -128]}

\* the statement around the literal, and the least value the place admits
\* (every literal above is below the largest)
LiteralPlaces ==
  {[before |-> <<"a", "d", "d", "i", " ", "$", "t", "0", ",", " ", "$", "t", "1", ",", " ">>, after |-> <<>>, least |-> -32768],
   [before |-> <<"s", "l", "l", " ", "$", "t", "0", ",", " ", "$", "t", "1", ",", " ">>, after |-> <<>>, least |-> 0],
   [before |-> <<"l", "w", " ", "$", "t", "0", ",", " ">>, after |-> <<"(", "$", "t", "1", ")">>, least |-> -32768],
   [before |-> <<"l", "i", " ", "$", "t", "0", ",", " ">>, after |-> <<>>, least |-> -32768],
   [before |-> <<".", "d", "a", "t", "a">> \o <<"\n">> \o <<".", "b", "y", "t", "e", " ">>, after |-> <<>>, least |-> -128],
   [before |-> <<".", "d", "a", "t", "a">> \o <<"\n">> \o <<".", "h", "a", "l", "f", " ">>, after |-> <<>>, least |-> -32768],
   [before |-> <<".", "d", "a", "t", "a">> \o <<"\n">> \o <<".", "w", "o", "r", "d", " ">>, after |-> <<>>, least |-> -32768]}

InitLiterals ==
  \E place \in LiteralPlaces, n \in SignedLiterals : Fresh(place.before \o n.text \o place.after)

NextLiterals == DoLex \/ DoParse \/ DoValidate

SpecLiterals == InitLiterals /\ [][NextLiterals]_vars

\* the validator's reading of the token's lexeme is the integer the lexer
\* stored in the token
SameReading(token) ==
  LET same(read) ==
        /\ ~read.nan
        /\ read.digits = token.value.digits
        /\ read.neg = (token.value.neg /\ token.value.digits # <<>>)
  IN same(parseInt(getTokenLexeme(source, token)))

\* C36: lexer and validator agree on numeric literals: for every NUMBER
\* token, the integer the validator obtains by re-parsing the token's source
\* lexeme equals the value the lexer stored in the token, so a signed literal
\* written with interior whitespace (- 5) that is in range as an immediate,
\* shift amount, displacement or .byte/.half/.word argument produces no
\* validator diagnostic.
C36_LiteralsAgree ==
  Validated =>
    /\ \A k \in DOMAIN tokens : tokens[k].type = "NUMBER" => SameReading(tokens[k])
    /\ \A place \in LiteralPlaces, n \in SignedLiterals :
          (source = place.before \o n.text \o place.after /\ n.value >= place.least)
             => validateErrors = <<>>

\* addi with the literal -5 was validated: its NUMBER token reads the same
\* to both stages and there is no diagnostic
C36_Witness ==
  /\ Validated
  /\ source = <<"a", "d", "d", "i", " ", "$", "t", "0", ",", " ", "$", "t", "1", ",", " ", "-", "5">>
  /\ \E k \in DOMAIN tokens : tokens[k].type = "NUMBER" /\ SameReading(tokens[k])
  /\ validateErrors = <<>>
-----------------------------------------------------------------------------
(* Numbers: every text of up to MaxNumLen characters over signs, blanks,   *)
(* tabs, digits, a letter and a comma                                      *)

MaxNumLen == 5

NumAlphabet == {"-", "+", " ", "\t", "0", "1", "a", ","}

NumSources == UNION {[1..n -> NumAlphabet] : n \in 1..MaxNumLen}

InitNumbers == \E src \in NumSources : Fresh(src)

NextNumbers == DoLex

SpecNumbers == InitNumbers /\ [][NextNumbers]_vars

NumberTokens == {k \in DOMAIN tokens : tokens[k].type = "NUMBER"}

\* the source span of token k
SpanOf(k) == SubSeq(source, tokens[k].start.offset + 1, tokens[k].end.offset)

IsDecimalDigit(c) == c \in {"0", "1", "2", "3", "4", "5", "6", "7", "8", "9"}

RECURSIVE WithoutLeadingZeros(_)
WithoutLeadingZeros(digits) ==
  IF digits # <<>> /\ Head(digits) = 0 THEN WithoutLeadingZeros(Tail(digits)) ELSE digits

\* the digits a span holds, as numbers and without leading zeros
DigitsOf(span) ==
  LET values(chars) == [i \in DOMAIN chars |-> DigitValue(chars[i])]
  IN WithoutLeadingZeros(values(SelectSeq(span, IsDecimalDigit)))

\* the span is an optional sign, blanks and tabs only after a sign, then one
\* digit at least up to its end
SpellsNumber(span) ==
  \E d \in 1..Len(span) :
     /\ \A i \in d..Len(span) : IsDecimalDigit(span[i])
     /\ d > 1 => /\ span[1] \in {"-", "+"}
                 /\ \A i \in 2..(d - 1) : span[i] \in {" ", "\t"}

\* C37: every NUMBER token emitted by lex contains at least one decimal digit
\* in its source span and its value is the signed decimal integer that span
\* spells (sign, optional spaces/tabs, digits give one token ending at the
\* last digit); a + or - that is not followed, after optional spaces/tabs, by
\* a digit is never emitted as a NUMBER token of its own and never absorbs
\* trailing whitespace into a NUMBER span.
C37_NumberTokens ==
  Lexed =>
    \A k \in NumberTokens :
       /\ SpellsNumber(SpanOf(k))
       /\ tokens[k].value.digits = DigitsOf(SpanOf(k))
       /\ tokens[k].value.neg = (SpanOf(k)[1] = "-" /\ DigitsOf(SpanOf(k)) # <<>>)

\* "- 10" was lexed as one NUMBER token of value -10 ending at the last digit
C37_Witness ==
  /\ Lexed
  /\ source = <<"-", " ", "1", "0">>
  /\ Len(tokens) = 2
  /\ tokens[1].type = "NUMBER"
  /\ tokens[1].value = [neg |-> TRUE, digits |-> <<1, 0>>]
  /\ tokens[1].end.offset = 4
-----------------------------------------------------------------------------
(* Control flow: memory images of up to MaxControlLen words over branches, *)
(* jumps and three other instructions, run under every step budget up to   *)
(* MaxControlBudget                                                         *)

MaxControlLen == 3
MaxControlBudget == 4

\* addiu $t0, $zero, -7; lui $t0, 0x40 (the code base address); add; the
\* six kinds of branch on $t0 with offset 1, beq and bne on $zero with
\* offsets 1 and -1; j and jal to the third word; jr $t0, jr $ra; jalr with
\* rd = $ra, with rd = rs = $t0 and with rd = rs = $zero
ControlWords ==
  {IWord(9, 0, 8, -7), IWord(15, 0, 8, 64), RWord(8, 9, 10, 0, 32),
   IWord(4, 8, 9, 1), IWord(5, 8, 9, 1), IWord(6, 8, 0, 1), IWord(7, 8, 0, 1),
   IWord(1, 8, 0, 1), IWord(1, 8, 1, 1),
   IWord(4, 0, 0, 1), IWord(4, 0, 0, -1), IWord(5, 0, 0, 1),
   JWord(2, TEXT_START + 8), JWord(3, TEXT_START + 8),
   RWord(8, 0, 0, 0, 8), RWord(31, 0, 0, 0, 8),
   RWord(8, 0, 31, 0, 9), RWord(8, 0, 8, 0, 9), RWord(0, 0, 0, 0, 9)}

ControlPrograms == UNION {[1..n -> ControlWords] : n \in 1..MaxControlLen}

InitControl ==
  \E program \in ControlPrograms :
    /\ stage = "generated"
    /\ source = <<>>
    /\ tokens = <<>>
    /\ lexErrors = <<>>
    /\ nodes = <<>>
    /\ parseErrors = <<>>
    /\ parseThrew = FALSE
    /\ validateErrors = <<>>
    /\ validateThrew = FALSE
    /\ stored = <<>>
    /\ labelToAddress = <<>>
    /\ code = Image([mem |-> <<>>, error |-> NoError], program, 1).mem
    /\ emitted = <<>>
    /\ genError = NoError
    /\ sim = NoSim
    /\ steps = 0
    /\ runResult = NoResult

NextControl == NewSimulator(1..MaxControlBudget) \/ RunStart \/ RunStep \/ RunReturn

SpecControl == InitControl /\ [][NextControl]_vars

IsJ(w) == OpcodeField(w) = 2
IsJr(w) == OpcodeField(w) = 0 /\ FunctField(w) = 8

\* the branch w is taken in the current state
Taken(w) ==
  LET rs == sim.registers[RsField(w)]
      rt == sim.registers[RtField(w)]
  IN \/ OpcodeField(w) = 4 /\ rs = rt
     \/ OpcodeField(w) = 5 /\ rs # rt
     \/ OpcodeField(w) = 6 /\ rs <= 0
     \/ OpcodeField(w) = 7 /\ rs > 0
     \/ OpcodeField(w) = 1 /\ RtField(w) \in {0, 16} /\ rs < 0
     \/ OpcodeField(w) = 1 /\ RtField(w) \in {1, 17} /\ rs >= 0

\* the program counter the claim gives the step that executes w at sim.pc
NextPC(w) ==
  IF IsJ(w) \/ IsJal(w)
  THEN (((sim.pc + 4) \div 268435456) * 268435456) + 4 * (w % 67108864)
  ELSE IF IsJr(w) \/ IsJalr(w) THEN sim.registers[RsField(w)]
  ELSE IF Taken(w) THEN sim.pc + 4 + 4 * SignExtImm(w)
  ELSE sim.pc + 4

\* C38: program-counter update with no delay slot: a step at program counter
\* p that executes a non-control instruction or an untaken branch leaves
\* PC = p + 4; a taken branch leaves PC = p + 4 + 4*signext(imm16); j/jal
\* leave PC = ((p + 4) & 0xF0000000) | (target26 << 2); jr/jalr leave
\* PC = value of rs; and the next instruction fetched is the one at the new
\* PC, the word at p + 4 is not executed after a taken branch or jump.
C38_ProgramCounter ==
  [][Executes => sim'.pc = NextPC(FetchedWord)]_vars

\* jal at the code base has been executed: control is at the third word, not
\* at the second
C38_Witness ==
  /\ stage = "running"
  /\ steps = 1
  /\ readWord(sim.mem, TEXT_START) = JWord(3, TEXT_START + 8)
  /\ sim.pc = TEXT_START + 8
-----------------------------------------------------------------------------
(* Memory image accessors: a new Code object under up to MaxStores calls   *)
(* of storeByte, storeHalfWord and storeWord                               *)

MaxStores == 2

\* six byte addresses: the four lanes of one word and two of the next
StoreAddresses == DATA_START..(DATA_START + 5)

\* values with bits above the stored width, and a negative one
StoreValues == {1, 258, -1, 305419896}

InitMemory ==
  /\ stage = "image"
  /\ source = <<>>
  /\ tokens = <<>>
  /\ lexErrors = <<>>
  /\ nodes = <<>>
  /\ parseErrors = <<>>
  /\ parseThrew = FALSE
  /\ validateErrors = <<>>
  /\ validateThrew = FALSE
  /\ stored = <<>>
  /\ labelToAddress = <<>>
  /\ code = <<>>
  /\ emitted = <<>>
  /\ genError = NoError
  /\ sim = NoSim
  /\ steps = 0
  /\ runResult = NoResult

\* a store call that returned is entered in the history; one that threw
\* changed nothing
Called(width, address, value, after) ==
  /\ code' = after.mem
  /\ stored' = IF after.error # NoError THEN stored
               ELSE Append(stored, [width |-> width, address |-> address, value |-> value])

StoreByte ==
  /\ stage = "image"
  /\ Len(stored) < MaxStores
  /\ \E a \in StoreAddresses, v \in StoreValues :
        Called(1, a, v, storeByte([mem |-> code, error |-> NoError], a, v))
  /\ UNCHANGED <<stage, source, tokens, lexErrors, nodes, parseErrors, parseThrew, validateErrors,
                 validateThrew, labelToAddress, emitted, genError, sim, steps, runResult>>

StoreHalfWord ==
  /\ stage = "image"
  /\ Len(stored) < MaxStores
  /\ \E a \in StoreAddresses, v \in StoreValues :
        Called(2, a, v, storeHalfWord([mem |-> code, error |-> NoError], a, v))
  /\ UNCHANGED <<stage, source, tokens, lexErrors, nodes, parseErrors, parseThrew, validateErrors,
                 validateThrew, labelToAddress, emitted, genError, sim, steps, runResult>>

StoreWord ==
  /\ stage = "image"
  /\ Len(stored) < MaxStores
  /\ \E a \in StoreAddresses, v \in StoreValues :
        Called(4, a, v, storeWord([mem |-> code, error |-> NoError], a, v))
  /\ UNCHANGED <<stage, source, tokens, lexErrors, nodes, parseErrors, parseThrew, validateErrors,
                 validateThrew, labelToAddress, emitted, genError, sim, steps, runResult>>

NextMemory == StoreByte \/ StoreHalfWord \/ StoreWord

SpecMemory == InitMemory /\ [][NextMemory]_vars

\* byte i of the two's-complement value v, least significant first
ByteOf(v, i) == (v \div (256^i)) % 256

\* the calls of the history that wrote byte a
WritesTo(a) ==
  {k \in DOMAIN stored : a \in stored[k].address..(stored[k].address + stored[k].width - 1)}

\* the byte the last of them put at a, 0 when there is none
LastStored(a) ==
  LET byte(k) == ByteOf(stored[k].value, a - stored[k].address)
      last(ks) == CHOOSE k \in ks : \A j \in ks : j <= k
  IN IF WritesTo(a) = {} THEN 0 ELSE byte(last(WritesTo(a)))

\* the byte addresses looked at: the words of StoreAddresses and the word
\* before them
ReadAddresses == (DATA_START - 4)..(DATA_START + 7)

\* C39: memory image accessors: after any sequence of storeByte/
\* storeHalfWord/storeWord calls, readByte(a) returns the low 8 bits of the
\* last value stored at byte a, or 0 if byte a was never written;
\* storeByte(a, v) changes no byte other than a (the other three bytes of the
\* containing word and all other words are unchanged); and bits 8i..8i+7 of
\* readWord(w) equal readByte(w + i) for i in 0..3 (little-endian layout).
C39_Accessors ==
  stage = "image" =>
    /\ \A a \in ReadAddresses : readByte(code, a) = LastStored(a)
    /\ \A w \in {DATA_START - 4, DATA_START, DATA_START + 4}, i \in 0..3 :
          ByteOf(readWord(code, w), i) = readByte(code, w + i)

\* a word was stored and then one byte inside it: that byte reads the new
\* value, the other three still read the bytes of the word
C39_Witness ==
  /\ stage = "image"
  /\ stored = <<[width |-> 4, address |-> DATA_START, value |-> 305419896],
                [width |-> 1, address |-> DATA_START + 1, value |-> 258]>>
  /\ readByte(code, DATA_START) = 120
  /\ readByte(code, DATA_START + 1) = 2
  /\ readByte(code, DATA_START + 2) = 52
  /\ readByte(code, DATA_START + 3) = 18
-----------------------------------------------------------------------------
(* Termination of run: images of up to MaxTermLen instruction words and a  *)
(* string at address 0, run under every budget from 0 to MaxTermBudget     *)

MaxTermLen == 2
MaxTermBudget == 4

\* addiu $v0, $zero, 4 and 10 (print_string, exit); syscall (with $a0 = 0
\* print_string reads from address 0); beq $zero, $zero, -1 (a loop on
\* itself); addiu $t0, $zero, -7 and jr $t0 (a misaligned fetch); a word
\* with an unsupported opcode
TermWords ==
  {IWord(9, 0, 2, 4), IWord(9, 0, 2, 10), RWord(0, 0, 0, 0, 12), IWord(4, 0, 0, -1),
   IWord(9, 0, 8, -7), RWord(8, 0, 0, 0, 8), IWord(63, 0, 0, 0)}

TermPrograms == UNION {[1..n -> TermWords] : n \in 1..MaxTermLen}

\* the words at address 0: nothing, "ab" and its terminator, or eight
\* characters with no terminator among them
TermData == {<<>>, <<25185>>, <<1684234849, 1751606885>>}

RECURSIVE DataImage(_, _, _)
DataImage(c, words, i) ==
  IF i > Len(words) THEN c
  ELSE DataImage(storeWord(c, 4 * (i - 1), words[i]), words, i + 1)

InitTermination ==
  \E program \in TermPrograms, data \in TermData :
    /\ stage = "generated"
    /\ source = <<>>
    /\ tokens = <<>>
    /\ lexErrors = <<>>
    /\ nodes = <<>>
    /\ parseErrors = <<>>
    /\ parseThrew = FALSE
    /\ validateErrors = <<>>
    /\ validateThrew = FALSE
    /\ stored = <<>>
    /\ labelToAddress = <<>>
    /\ code = DataImage(Image([mem |-> <<>>, error |-> NoError], program, 1), data, 1).mem
    /\ emitted = <<>>
    /\ genError = NoError
    /\ sim = NoSim
    /\ steps = 0
    /\ runResult = NoResult

NextTermination == NewSimulator(0..MaxTermBudget) \/ RunStart \/ RunStep \/ RunReturn

\* run, once called, keeps executing: the loop is not suspended
SpecTermination == InitTermination /\ [][NextTermination]_vars /\ WF_vars(NextTermination)

\* the counter is within the budget, and so is the count run returns
CountWithinBudget ==
  /\ stage \in {"running", "done"} =>
       /\ 0 <= sim.instructionsExecuted
       /\ sim.instructionsExecuted <= sim.maxInstructions
  /\ stage = "done" =>
       /\ runResult[1].instructionsExecuted = sim.instructionsExecuted
       /\ sim.error # NoError => runResult[1].exitCode = -1

\* an iteration of the loop counts 1 when it completes and nothing when it
\* faults
CountsCompletedSteps ==
  (stage = "running" /\ sim' # sim) =>
     sim'.instructionsExecuted
        = sim.instructionsExecuted + (IF sim'.error = NoError THEN 1 ELSE 0)

\* C40: for every memory image and every finite maxInstructions >= 0, run
\* terminates and returns with 0 <= instructionsExecuted <= maxInstructions;
\* instructionsExecuted grows by exactly 1 per completed step and is not
\* incremented for a step that faults.
C40_RunTerminates ==
  /\ []CountWithinBudget
  /\ [][CountsCompletedSteps]_vars
  /\ <>(stage = "done")

\* run returned after two completed steps and a fault, with budget to spare:
\* the two steps were counted, the faulting third was not
C40_Witness ==
  /\ stage = "done"
  /\ sim.error # NoError
  /\ sim.maxInstructions = MaxTermBudget
  /\ runResult[1] = [exitCode |-> -1, instructionsExecuted |-> 2]
====
